---- MODULE Spec2Model ----
(***************************************************************************)
(* Photography-Portfolio: the runtime image proxy                          *)
(* (api/google-drive/image/route.ts, in its two copies), the resize call   *)
(* sites of the proxy and of the build-time generators, and the metadata   *)
(* formatters of the gallery generator and of the runtime listing library. *)
(*                                                                         *)
(* Further parts: fetchImagesFromDrive in its two copies (the gallery      *)
(* generator's and the runtime library's), and the main loops of the       *)
(* gallery data generator and of the cover thumbnail generator; the        *)
(* in-memory rate limiter, the revalidation endpoint, the statically       *)
(* generated gallery pages, the contact form with its endpoint, and the    *)
(* infinite-scroll grid.                                                   *)
(*                                                                         *)
(* The specifications of the module:                                       *)
(*   Spec            one invocation after another of the proxy's GET       *)
(*   SpecResize      every sharp .resize() call site on native sizes       *)
(*   SpecFormat      formatCameraSettings / formatFileSize on listed files *)
(*   SpecListing     fetchImagesFromDrive on a folder listing              *)
(*   SpecGenerators  runs of generate-gallery-data or of                   *)
(*                   generate-cover-thumbnails, one after another          *)
(*   SpecRateLimit   calls of rateLimit, its cleanup timer and the clock   *)
(*   SpecRevalidate  requests to api/revalidate, one after another         *)
(*   SpecPages       the category pages and the gallery landing page over  *)
(*                   what src/generated holds                              *)
(*   SpecConcurrent  two invocations of the proxy's GET, interleaved       *)
(*   SpecContact     the contact form, the Turnstile widget and the        *)
(*                   contact endpoint                                      *)
(*   SpecScroll      the infinite-scroll grid: triggers, timers, renders   *)
(*   SpecScrollFair  the same, with timers, renders and triggers that      *)
(*                   are not postponed for ever                            *)
(* Each leaves the variables of the other parts at their idle values.      *)
(***************************************************************************)
EXTENDS Integers, Sequences, FiniteSets, TLC

VARIABLES
    pxVariant,      \* which copy of route.ts is deployed: "app" or "root"
    pxEnv,          \* process.env: the two credential variables
    pxPc,           \* position of the handler: idle, fetching, encoding, done
    pxReq,          \* the request: id, size, format parameters, Accept header
    pxFormat,       \* outputFormat, once negotiated
    pxResize,       \* the resize put on the sharp pipeline
    pxImage,        \* what the upstream download returned
    pxResp,         \* the response returned
    pxCredLookups,  \* getDriveClient() calls of this invocation
    pxFetches,      \* file ids passed to drive.files.get by this invocation
    pxFailure,      \* the error thrown inside the try block, if any
    rsPc,           \* resize call sites: ready, done
    rsNative,       \* native width and height of the input
    rsSite,         \* the call site that ran
    rsTarget,       \* the width and height that call site passes to resize()
    rsOut,          \* output width and height
    fmPc,           \* formatters: ready, done
    fmFile,         \* the listed file: imageMediaMetadata and size
    fmImpl,         \* "generator" or "library"
    fmOut,          \* metadata.settings (and its parts) and metadata.fileSize
    lsPc,           \* fetchImagesFromDrive: ready, listing, done
    lsImpl,         \* "generator" or "library"
    lsArgs,         \* folderId and category passed
    lsEnv,          \* process.env: the two credential variables
    lsRemote,       \* what drive.files.list answers for the folder
    lsListCalls,    \* drive.files.list calls made
    lsResult,       \* the images returned, or the error thrown to the caller
    ggPc,           \* gallery generator: ready, loop, done
    ggRun,          \* number of the run
    ggEnv,          \* process.env of the run: credentials and folder ids
    ggDrive,        \* state of the drive's folders during the run
    ggIndex,        \* position of the for loop in GALLERIES
    ggListCalls,    \* folder ids passed to drive.files.list by the run
    ggWritten,      \* manifests written by the run, by slug
    ggDisk,         \* src/generated: the gallery manifests present, by slug
    ggPrev,         \* env and manifests of the run before
    ggExit,         \* how main() ended: resolved or rejected
    cgPc,           \* cover generator: ready, loop, saving, done
    cgRun,          \* number of the run
    cgEnv,          \* process.env of the run: the two credential variables
    cgMappings,     \* GALLERY_COVER_MAPPINGS
    cgIndex,        \* position of the for loop in the mappings
    cgResults,      \* results: the records pushed so far
    cgCovers,       \* public/images/gallery-covers: the run that wrote each file
    cgManifest,     \* src/generated/cover-thumbnails.json
    cgLog,          \* per mapping of the run: how its processing ended
    cgExit,         \* how main() ended: resolved or rejected
    cgSaves,        \* loop positions at which the run wrote cover-thumbnails.json
    rlPc,           \* rate limiter: running
    rlConfig,       \* the RateLimitConfig passed: limit and window
    rlNow,          \* Date.now()
    rlMap,          \* rateLimitMap
    rlReference,    \* rateLimitMap as it would be without the cleanup
    rlLast,         \* the last rateLimit call: identifier, entry before and after,
                    \* result, and the same on rlReference
    rlOpened,       \* per identifier: when its current window was started
    rlGrants,       \* per identifier: the times of its accepted calls
    rvPc,           \* revalidation endpoint: idle, reading, done
    rvEnv,          \* process.env.REVALIDATE_SECRET
    rvReq,          \* the request: method, x-revalidate-secret header, body
    rvBodyReads,    \* request.json() calls of this invocation
    rvRevalidated,  \* paths passed to revalidatePath by this invocation
    rvResp,         \* the response returned
    pgPc,           \* pages: idle, loaded, done
    pgGenerated,    \* src/generated: the gallery manifests present, by slug
    pgCovers,       \* src/generated/cover-thumbnails.json
    pgPage,         \* the page asked for: category (and slug) or landing
    pgRender,       \* what came of rendering it
    cxVariant,      \* concurrent proxy: the copy of route.ts deployed
    cxEnv,          \* process.env: the two credential variables
    cxPc,           \* per invocation: idle, fetching, encoding, done
    cxReq,          \* per invocation: its request
    cxLocals,       \* per frame: outputFormat, the resize, the downloaded buffer
    cxResp,         \* per invocation: the response returned
    cxOverlap,      \* per invocation: another one was in flight with it
    ctPc,           \* contact form: mounted
    ctToken,        \* turnstileToken state of the form
    ctSubmitting,   \* isSubmitting state of the form
    ctStatus,       \* submitStatus state of the form
    ctFlight,       \* the form's request to /api/contact, and its answer
    ctFormPosts,    \* tokens the form has posted with
    ctOutbox,       \* emails handed to Resend without an error
    ctFresh,        \* the widget succeeded since the last successful submission
    ctLast,         \* the last response of the endpoint
    scPc,           \* infinite-scroll grid: mounted
    scProps,        \* images.length and loadMoreCount
    scDisplayCount, \* displayCount state
    scLoadingMore,  \* isLoadingMore state
    scRendered,     \* the state seen by the last render, closed over by loadMore
    scTimers,       \* setTimeout callbacks pending
    scLast          \* the last trigger or completed load

pxVars == <<pxVariant, pxEnv, pxPc, pxReq, pxFormat, pxResize, pxImage, pxResp,
            pxCredLookups, pxFetches, pxFailure>>
rsVars == <<rsPc, rsNative, rsSite, rsTarget, rsOut>>
fmVars == <<fmPc, fmFile, fmImpl, fmOut>>
lsVars == <<lsPc, lsImpl, lsArgs, lsEnv, lsRemote, lsListCalls, lsResult>>
ggVars == <<ggPc, ggRun, ggEnv, ggDrive, ggIndex, ggListCalls, ggWritten, ggDisk, ggPrev, ggExit>>
cgVars == <<cgPc, cgRun, cgEnv, cgMappings, cgIndex, cgResults, cgCovers, cgManifest,
            cgLog, cgExit, cgSaves>>
rlVars == <<rlPc, rlConfig, rlNow, rlMap, rlReference, rlLast, rlOpened, rlGrants>>
rvVars == <<rvPc, rvEnv, rvReq, rvBodyReads, rvRevalidated, rvResp>>
pgVars == <<pgPc, pgGenerated, pgCovers, pgPage, pgRender>>
cxVars == <<cxVariant, cxEnv, cxPc, cxReq, cxLocals, cxResp, cxOverlap>>
ctVars == <<ctPc, ctToken, ctSubmitting, ctStatus, ctFlight, ctFormPosts, ctOutbox,
            ctFresh, ctLast>>
scVars == <<scPc, scProps, scDisplayCount, scLoadingMore, scRendered, scTimers, scLast>>
laterVars == <<rlVars, rvVars, pgVars, cxVars, ctVars, scVars>>
vars == <<pxVars, rsVars, fmVars, lsVars, ggVars, cgVars, laterVars>>

\* what the actions of one part leave alone: the variables of the others
pxOthers == <<rsVars, fmVars, lsVars, ggVars, cgVars, laterVars>>
rsOthers == <<pxVars, fmVars, lsVars, ggVars, cgVars, laterVars>>
fmOthers == <<pxVars, rsVars, lsVars, ggVars, cgVars, laterVars>>
lsOthers == <<pxVars, rsVars, fmVars, ggVars, cgVars, laterVars>>
ggOthers == <<pxVars, rsVars, fmVars, lsVars, cgVars, laterVars>>
cgOthers == <<pxVars, rsVars, fmVars, lsVars, ggVars, laterVars>>
firstVars == <<pxVars, rsVars, fmVars, lsVars, ggVars, cgVars>>
rlOthers == <<firstVars, rvVars, pgVars, cxVars, ctVars, scVars>>
rvOthers == <<firstVars, rlVars, pgVars, cxVars, ctVars, scVars>>
pgOthers == <<firstVars, rlVars, rvVars, cxVars, ctVars, scVars>>
cxOthers == <<firstVars, rlVars, rvVars, pgVars, ctVars, scVars>>
ctOthers == <<firstVars, rlVars, rvVars, pgVars, cxVars, scVars>>
scOthers == <<firstVars, rlVars, rvVars, pgVars, cxVars, ctVars>>

----------------------------------------------------------------------------
(* JavaScript values *)

\* null / undefined where a string is expected
Null == "<null>"

\* a string used as a condition: null, undefined and "" are falsy
Truthy(s) == s # Null /\ s # ""

\* a || b on strings
OrElse(a, b) == IF Truthy(a) THEN a ELSE b

Max(a, b) == IF a >= b THEN a ELSE b

\* Math.round(a / b) for a >= 0, b > 0: halves round up
RoundDiv(a, b) == (2 * a + b) \div (2 * b)

----------------------------------------------------------------------------
(* sharp: resize(width, height, {fit: 'inside', withoutEnlargement: true}) *)

NoResize == [applied |-> FALSE, width |-> 0, height |-> 0]

\* height = 0 stands for the null height of resize(width, null, ...)
WidthOnly(width) == [applied |-> TRUE, width |-> width, height |-> 0]

Box(width, height) == [applied |-> TRUE, width |-> width, height |-> height]

\* plausible bug: the resize is dropped and the native size is served
ResizeInside_Dropped(native, target) == native

\* plausible bug: withoutEnlargement is not passed, so small inputs are scaled up
ResizeInside_Enlarging(native, target) ==
    IF ~target.applied THEN native
    ELSE IF target.height = 0 \/ native.w * target.height >= native.h * target.width
         THEN [w |-> target.width,
               h |-> Max(1, RoundDiv(native.h * target.width, native.w))]
         ELSE [w |-> Max(1, RoundDiv(native.w * target.height, native.h)),
               h |-> target.height]

\* The output size of the pipeline. With a null height the image is shrunk
\* to the target width and the height follows the aspect ratio; with both,
\* the larger of the two shrink factors is used for both axes. A shrink
\* factor below 1 is raised to 1 (withoutEnlargement).
ResizeInside(native, target) ==
    IF ~target.applied THEN native
    ELSE IF target.height = 0 \/ native.w * target.height >= native.h * target.width
         THEN IF native.w <= target.width THEN native
              ELSE [w |-> target.width,
                    h |-> Max(1, RoundDiv(native.h * target.width, native.w))]
         ELSE IF native.h <= target.height THEN native
              ELSE [w |-> Max(1, RoundDiv(native.w * target.height, native.h)),
                    h |-> target.height]

----------------------------------------------------------------------------
(* The image proxy: GET /api/google-drive/image *)

Variants == {"app", "root"}

\* GOOGLE_DRIVE_CLIENT_EMAIL / GOOGLE_DRIVE_PRIVATE_KEY: unset, empty or set
EnvValues == {Null, "", "set"}

\* what drive.files.get(alt: 'media') finds under each file id
DriveFiles ==
    [f \in {"fWide", "fTall", "fSmall", "fText", "fGone"} |->
        CASE f = "fWide"  -> [kind |-> "image", w |-> 4000, h |-> 3000]
          [] f = "fTall"  -> [kind |-> "image", w |-> 1000, h |-> 3000]
          [] f = "fSmall" -> [kind |-> "image", w |-> 640, h |-> 480]
          [] f = "fText"  -> [kind |-> "bytes"]
          [] f = "fGone"  -> [kind |-> "error", message |-> "File not found: fGone."]]

FileIds == DOMAIN DriveFiles

IdParams == {Null, ""} \cup FileIds
SizeParams == {Null, "", "thumbnail", "medium", "full", "original"}
FormatParams == {Null, "auto", "webp", "avif", "jpeg", "png"}

\* The Accept header: absent, or the media ranges it lists.
\* String.includes(t) is modelled as "t is one of the listed ranges".
AcceptHeaders ==
    { [present |-> FALSE, types |-> <<>>],
      [present |-> TRUE, types |-> <<>>],
      [present |-> TRUE, types |-> <<"image/avif", "image/webp", "*/*">>],
      [present |-> TRUE, types |-> <<"image/webp", "image/avif">>],
      [present |-> TRUE, types |-> <<"image/webp", "*/*">>],
      [present |-> TRUE, types |-> <<"text/html", "*/*">>] }

Includes(header, t) == \E i \in 1..Len(header.types) : header.types[i] = t

\* an empty header string is falsy
HeaderTruthy(header) == header.present /\ header.types # <<>>

NoError == [thrown |-> FALSE, isError |-> FALSE, message |-> ""]
ErrorOf(msg) == [thrown |-> TRUE, isError |-> TRUE, message |-> msg]

\* getDriveClient(): throws unless both credentials are truthy
getDriveClient(env) ==
    IF ~Truthy(env.clientEmail) \/ ~Truthy(env.privateKey)
    THEN ErrorOf("Google Drive credentials not found")
    ELSE NoError

\* plausible bug: AVIF and WebP are probed in the wrong order
getOptimalFormat_WebpFirst(acceptHeader, requestedFormat) ==
    IF Truthy(requestedFormat) /\ requestedFormat # "auto"
    THEN IF requestedFormat = "webp" \/ requestedFormat = "avif"
         THEN requestedFormat ELSE "jpeg"
    ELSE IF HeaderTruthy(acceptHeader) /\ Includes(acceptHeader, "image/webp") THEN "webp"
    ELSE IF HeaderTruthy(acceptHeader) /\ Includes(acceptHeader, "image/avif") THEN "avif"
    ELSE "jpeg"

getOptimalFormat(acceptHeader, requestedFormat) ==
    IF Truthy(requestedFormat) /\ requestedFormat # "auto"
    THEN IF requestedFormat = "webp" \/ requestedFormat = "avif"
         THEN requestedFormat ELSE "jpeg"
    ELSE IF HeaderTruthy(acceptHeader) /\ Includes(acceptHeader, "image/avif") THEN "avif"
    ELSE IF HeaderTruthy(acceptHeader) /\ Includes(acceptHeader, "image/webp") THEN "webp"
    ELSE "jpeg"

\* const size = searchParams.get('size') || 'full'
SizeOf(req) == OrElse(req.size, "full")

\* const requestedFormat = searchParams.get('format') || 'auto'
RequestedFormatOf(req) == OrElse(req.format, "auto")

\* plausible bug: only an absent id is rejected, an empty one goes on
MissingId_NullOnly(fileId) == fileId = Null

\* if (!fileId)
MissingId(fileId) == ~Truthy(fileId)

\* plausible bug: the medium width is set to the thumbnail's
ProxyResizeTarget_FlatMedium(variant, size) ==
    IF size = "thumbnail" \/ size = "medium" THEN WidthOnly(800)
    ELSE IF size = "full" /\ variant = "root" THEN Box(2048, 2048)
    ELSE NoResize

\* the if / else-if chain on size: what each copy passes to resize()
ProxyResizeTarget(variant, size) ==
    IF size = "thumbnail" THEN WidthOnly(800)
    ELSE IF size = "medium"
         THEN IF variant = "app" THEN WidthOnly(1200) ELSE WidthOnly(1600)
    ELSE IF size = "full" /\ variant = "root" THEN Box(2048, 2048)
    ELSE NoResize

\* quality passed to the encoder
Quality(variant, size, format) ==
    IF variant = "app" THEN (IF size = "full" THEN 95 ELSE 93)
    ELSE IF size = "full" THEN (IF format = "webp" THEN 98 ELSE 95)
    ELSE IF size = "thumbnail" THEN 90
    ELSE 93

\* plausible bug: the upstream call is made twice (a metadata check, or a retry)
DownloadCalls_Twice(fileId) == <<fileId, fileId>>

\* the drive.files.get calls one invocation makes for its file
DownloadCalls(fileId) == <<fileId>>

NoResponse == [status |-> 0, kind |-> "none", headers |-> <<>>, body |-> <<>>]

\* NextResponse.json(body, {status})
JsonResponse(status, body) ==
    [status |-> status, kind |-> "json",
     headers |-> [n \in {"Content-Type"} |-> "application/json"],
     body |-> body]

\* plausible bug: the Vary header is left out
ImageHeaders_NoVary(variant, contentType) ==
    [n \in {"Content-Type", "Cache-Control", "Content-Length"} |->
        CASE n = "Content-Type" -> contentType
          [] n = "Cache-Control" -> "public, max-age=31536000, immutable"
          [] OTHER -> "<bytes>"]

\* headers of the 200 response; Content-Length and X-Processing-Time carry
\* measured values, kept as placeholders
ImageHeaders(variant, contentType) ==
    [n \in {"Content-Type", "Cache-Control", "Vary", "Content-Length"}
           \cup (IF variant = "root" THEN {"X-Processing-Time"} ELSE {}) |->
        CASE n = "Content-Type" -> contentType
          [] n = "Cache-Control" -> "public, max-age=31536000, immutable"
          [] n = "Vary" -> "Accept"
          [] n = "Content-Length" -> "<bytes>"
          [] OTHER -> "<ms>"]

\* contentType set in the branch that encodes
ContentTypeOf(format) ==
    IF format = "avif" THEN "image/avif"
    ELSE IF format = "webp" THEN "image/webp"
    ELSE "image/jpeg"

\* plausible bug: the message of the caught error is dropped
ErrorDetails_Unknown(err) == "Unknown error"

\* error instanceof Error ? error.message : 'Unknown error'
ErrorDetails(err) == IF err.isError THEN err.message ELSE "Unknown error"

\* the catch block
CatchResponse(variant, err) ==
    JsonResponse(500,
        IF variant = "root"
        THEN [error |-> "Failed to fetch image from Google Drive",
              details |-> ErrorDetails(err), processingTime |-> "<ms>"]
        ELSE [error |-> "Failed to fetch image from Google Drive",
              details |-> ErrorDetails(err)])

NoRequest == [id |-> Null, size |-> Null, format |-> Null,
              accept |-> [present |-> FALSE, types |-> <<>>]]

PxIdle ==
    /\ pxPc = "idle"
    /\ pxReq = NoRequest
    /\ pxFormat = Null
    /\ pxResize = NoResize
    /\ pxImage = [kind |-> "none"]
    /\ pxResp = NoResponse
    /\ pxCredLookups = 0
    /\ pxFetches = <<>>
    /\ pxFailure = NoError

PxParked ==
    /\ pxVariant = "app"
    /\ pxEnv = [clientEmail |-> Null, privateKey |-> Null]
    /\ PxIdle

\* GET, from its entry to its first await: the parameters are read, a
\* request without id is answered 400, the Drive client is built (or the
\* missing credentials are thrown and caught) and the download is issued.
GET_Start ==
    /\ pxPc = "idle"
    /\ \E id \in IdParams, size \in SizeParams, format \in FormatParams,
          accept \in AcceptHeaders :
        LET req == [id |-> id, size |-> size, format |-> format, accept |-> accept]
            client == getDriveClient(pxEnv)
        IN /\ pxReq' = req
           /\ \/ /\ MissingId(id)
                 /\ pxResp' = JsonResponse(400, [error |-> "Missing required parameter: id"])
                 /\ pxPc' = "done"
                 /\ UNCHANGED <<pxCredLookups, pxFetches, pxFailure>>
              \/ /\ ~MissingId(id)
                 /\ client.thrown
                 /\ pxCredLookups' = pxCredLookups + 1
                 /\ pxFailure' = client
                 /\ pxResp' = CatchResponse(pxVariant, client)
                 /\ pxPc' = "done"
                 /\ UNCHANGED pxFetches
              \/ /\ ~MissingId(id)
                 /\ ~client.thrown
                 /\ pxCredLookups' = pxCredLookups + 1
                 /\ pxFetches' = pxFetches \o DownloadCalls(id)
                 /\ pxPc' = "fetching"
                 /\ UNCHANGED <<pxResp, pxFailure>>
    /\ UNCHANGED <<pxVariant, pxEnv, pxFormat, pxResize, pxImage>>
    /\ UNCHANGED pxOthers

\* the download settles: a rejected call is caught; otherwise the format is
\* negotiated, the resize is put on the pipeline and the encoder is awaited
GET_FetchDone ==
    /\ pxPc = "fetching"
    /\ LET file == DriveFiles[pxReq.id]
       IN \/ /\ file.kind = "error"
             /\ pxFailure' = ErrorOf(file.message)
             /\ pxResp' = CatchResponse(pxVariant, ErrorOf(file.message))
             /\ pxPc' = "done"
             /\ UNCHANGED <<pxFormat, pxResize, pxImage>>
          \/ /\ file.kind # "error"
             /\ pxImage' = file
             /\ pxFormat' = getOptimalFormat(pxReq.accept, RequestedFormatOf(pxReq))
             /\ pxResize' = ProxyResizeTarget(pxVariant, SizeOf(pxReq))
             /\ pxPc' = "encoding"
             /\ UNCHANGED <<pxResp, pxFailure>>
    /\ UNCHANGED <<pxVariant, pxEnv, pxReq, pxCredLookups, pxFetches>>
    /\ UNCHANGED pxOthers

\* toBuffer() settles: sharp rejects bytes that are no image, the encoder
\* may fail, otherwise the 200 response is built
GET_EncodeDone ==
    /\ pxPc = "encoding"
    /\ \/ /\ pxImage.kind = "bytes"
          /\ pxFailure' = ErrorOf("Input buffer contains unsupported image format")
          /\ pxResp' = CatchResponse(pxVariant,
                           ErrorOf("Input buffer contains unsupported image format"))
       \/ /\ pxImage.kind = "image"
          /\ pxFailure' = ErrorOf("encoder failed")
          /\ pxResp' = CatchResponse(pxVariant, ErrorOf("encoder failed"))
       \/ /\ pxImage.kind = "image"
          /\ LET out == ResizeInside([w |-> pxImage.w, h |-> pxImage.h], pxResize)
             IN pxResp' = [status |-> 200, kind |-> "image",
                           headers |-> ImageHeaders(pxVariant, ContentTypeOf(pxFormat)),
                           body |-> [format |-> pxFormat, w |-> out.w, h |-> out.h,
                                     quality |-> Quality(pxVariant, SizeOf(pxReq), pxFormat)]]
          /\ UNCHANGED pxFailure
    /\ pxPc' = "done"
    /\ UNCHANGED <<pxVariant, pxEnv, pxReq, pxFormat, pxResize, pxImage,
                   pxCredLookups, pxFetches>>
    /\ UNCHANGED pxOthers

\* the response has been sent; the next invocation starts from scratch
GET_Return ==
    /\ pxPc = "done"
    /\ pxPc' = "idle"
    /\ pxReq' = NoRequest
    /\ pxFormat' = Null
    /\ pxResize' = NoResize
    /\ pxImage' = [kind |-> "none"]
    /\ pxResp' = NoResponse
    /\ pxCredLookups' = 0
    /\ pxFetches' = <<>>
    /\ pxFailure' = NoError
    /\ UNCHANGED <<pxVariant, pxEnv>>
    /\ UNCHANGED pxOthers

PxInit ==
    /\ pxVariant \in Variants
    /\ pxEnv \in [clientEmail : EnvValues, privateKey : EnvValues]
    /\ PxIdle


----------------------------------------------------------------------------
(* resize call sites *)

\* native widths and heights tried: around each target width, and beyond
RsDims == {24, 32, 33, 600, 800, 801, 1200, 1600, 2048, 2049, 3000, 4000, 6000}

\* the width main() passes to generateThumbnail
CoverThumbnailWidth == 800

\* the width main() passes to generateWebPImage
AboutImageWidth == 1200

\* the width of the blur placeholder
BlurWidth == 32

\* generateThumbnail(imageBuffer, outputPath, width): width and height written
generateThumbnail(native, width) == ResizeInside(native, WidthOnly(width))

\* generateWebPImage(imageBuffer, outputPath, maxWidth)
generateWebPImage(native, maxWidth) == ResizeInside(native, WidthOnly(maxWidth))

\* generateBlurPlaceholder(imageBuffer): size of the encoded placeholder
generateBlurPlaceholder(native) == ResizeInside(native, WidthOnly(BlurWidth))

RsParked ==
    /\ rsPc = "parked"
    /\ rsNative = [w |-> 1, h |-> 1]
    /\ rsSite = "none"
    /\ rsTarget = NoResize
    /\ rsOut = [w |-> 0, h |-> 0]

RsInit ==
    /\ rsPc = "ready"
    /\ rsNative \in [w : RsDims, h : RsDims]
    /\ rsSite = "none"
    /\ rsTarget = NoResize
    /\ rsOut = [w |-> 0, h |-> 0]

\* the proxy's resize for one copy and one size value
ProxyResizeSite ==
    /\ rsPc = "ready"
    /\ \E variant \in Variants, size \in {"thumbnail", "medium", "full", "original"} :
        /\ rsSite' = "proxy-" \o variant \o "-" \o size
        /\ rsTarget' = ProxyResizeTarget(variant, size)
        /\ rsOut' = ResizeInside(rsNative, ProxyResizeTarget(variant, size))
    /\ rsPc' = "done"
    /\ UNCHANGED <<rsNative, rsOthers>>

\* generate-cover-thumbnails: the cover thumbnail
CoverThumbnailSite ==
    /\ rsPc = "ready"
    /\ rsSite' = "cover-thumbnail"
    /\ rsTarget' = WidthOnly(CoverThumbnailWidth)
    /\ rsOut' = generateThumbnail(rsNative, CoverThumbnailWidth)
    /\ rsPc' = "done"
    /\ UNCHANGED <<rsNative, rsOthers>>

\* generate-about-image: the about image
AboutImageSite ==
    /\ rsPc = "ready"
    /\ rsSite' = "about-image"
    /\ rsTarget' = WidthOnly(AboutImageWidth)
    /\ rsOut' = generateWebPImage(rsNative, AboutImageWidth)
    /\ rsPc' = "done"
    /\ UNCHANGED <<rsNative, rsOthers>>

\* the blur placeholder of either generator
BlurPlaceholderSite ==
    /\ rsPc = "ready"
    /\ \E script \in {"cover", "about"} : rsSite' = script \o "-blur"
    /\ rsTarget' = WidthOnly(BlurWidth)
    /\ rsOut' = generateBlurPlaceholder(rsNative)
    /\ rsPc' = "done"
    /\ UNCHANGED <<rsNative, rsOthers>>

RsNext == ProxyResizeSite \/ CoverThumbnailSite \/ AboutImageSite \/ BlurPlaceholderSite

----------------------------------------------------------------------------
(* formatters of the gallery generator and of the runtime listing library *)

\* Numbers of the metadata are kept in thousandths (0.008 is 8, 2.8 is 2800).
\* String(x) of such a number: the integer part, then the decimals without
\* trailing zeros.
JsNumber(th) ==
    LET int == th \div 1000
        d1 == (th % 1000) \div 100
        d2 == (th % 100) \div 10
        d3 == th % 10
    IN IF th % 1000 = 0 THEN ToString(int)
       ELSE IF d3 # 0 THEN ToString(int) \o "." \o ToString(d1) \o ToString(d2) \o ToString(d3)
       ELSE IF d2 # 0 THEN ToString(int) \o "." \o ToString(d1) \o ToString(d2)
       ELSE ToString(int) \o "." \o ToString(d1)

\* Math.round(1 / t) for t in thousandths, 0 < t
RoundReciprocal(th) == RoundDiv(1000, th)

\* (n / d).toFixed(1) for a byte count n and d a power of 1024: n / d is
\* exact, and a tie goes up. Tenths are computed without leaving 32 bits.
ToFixed1(n, d) ==
    LET q == n \div d
        r == n % d
        tenths ==
            IF d = 1 THEN 10 * n
            ELSE IF d <= 1048576 THEN 10 * q + (20 * r + d) \div (2 * d)
            ELSE LET dd == d \div 1024
                     a == r \div 1024
                     b == r % 1024
                 IN 10 * q + (2 * (10 * a + (10 * b) \div 1024) + dd) \div (2 * dd)
    IN ToString(tenths \div 10) \o "." \o ToString(tenths % 10)

RECURSIVE Join(_, _)
\* parts.join(sep)
Join(parts, sep) ==
    IF Len(parts) = 0 THEN ""
    ELSE IF Len(parts) = 1 THEN parts[1]
    ELSE parts[1] \o sep \o Join(Tail(parts), sep)

\* exposureTime as the listing returns it: absent (0), a number of seconds,
\* or a string
NoExposure == [kind |-> "num", th |-> 0, text |-> ""]
ExposureTruthy(e) == IF e.kind = "num" THEN e.th # 0 ELSE e.text # ""

\* generator, formatCameraSettings: the shutter part
\* (a string compares as NaN < 1, which is false)
GenShutter(e) ==
    IF e.kind = "num" /\ e.th < 1000
    THEN "1/" \o ToString(RoundReciprocal(e.th))
    ELSE (IF e.kind = "num" THEN JsNumber(e.th) ELSE e.text) \o "s"

\* generator, formatCameraSettings(metadata): the parts pushed, in order
GenSettingsParts(meta) ==
    (IF meta.focalLength # 0 THEN <<JsNumber(meta.focalLength) \o "mm">> ELSE <<>>)
    \o (IF meta.aperture # 0 THEN <<"f/" \o JsNumber(meta.aperture)>> ELSE <<>>)
    \o (IF ExposureTruthy(meta.exposureTime) THEN <<GenShutter(meta.exposureTime)>> ELSE <<>>)
    \o (IF meta.isoSpeed # 0 THEN <<"ISO " \o JsNumber(meta.isoSpeed)>> ELSE <<>>)

\* generator, formatFileSize(bytes)
GenFormatFileSize(bytes) ==
    IF bytes < 1024 THEN ToString(bytes) \o " B"
    ELSE IF bytes < 1024 * 1024 THEN ToFixed1(bytes, 1024) \o " KB"
    ELSE ToFixed1(bytes, 1024 * 1024) \o " MB"

\* library, formatExposureTime(exposureTime)
formatExposureTime(th) ==
    IF th >= 1000 THEN JsNumber(th) \o "s"
    ELSE "1/" \o ToString(RoundReciprocal(th)) \o "s"

\* library, formatCameraSettings: a string exposure is pushed as it is
LibExposure(e) == IF e.kind = "str" THEN e.text ELSE formatExposureTime(e.th)

\* library, formatCameraSettings(metadata): the parts pushed, in order
LibSettingsParts(meta) ==
    (IF meta.focalLength # 0 THEN <<JsNumber(meta.focalLength) \o "mm">> ELSE <<>>)
    \o (IF meta.aperture # 0 THEN <<"f/" \o JsNumber(meta.aperture)>> ELSE <<>>)
    \o (IF ExposureTruthy(meta.exposureTime) THEN <<LibExposure(meta.exposureTime)>> ELSE <<>>)
    \o (IF meta.isoSpeed # 0 THEN <<"ISO " \o JsNumber(meta.isoSpeed)>> ELSE <<>>)

Units == <<"B", "KB", "MB", "GB">>

RECURSIVE LibUnitIndex(_, _)
\* library, formatFileSize: the while loop; size >= 1024 after i divisions
\* by 1024 exactly when bytes >= 1024^(i+1)
LibUnitIndex(bytes, unitIndex) ==
    IF bytes >= 1024 /\ unitIndex < Len(Units) - 1
    THEN LibUnitIndex(bytes \div 1024, unitIndex + 1)
    ELSE unitIndex

Pow1024(k) == IF k = 0 THEN 1 ELSE IF k = 1 THEN 1024
              ELSE IF k = 2 THEN 1024 * 1024 ELSE 1024 * 1024 * 1024

\* library, formatFileSize(bytes)
LibFormatFileSize(bytes) ==
    LET unitIndex == LibUnitIndex(bytes, 0)
    IN ToFixed1(bytes, Pow1024(unitIndex)) \o " " \o Units[unitIndex + 1]

\* the settings and fileSize fields of the record built for one listed file;
\* exposure is the part pushed for the exposure time (Null when none is)
RecordMetadata(impl, file) ==
    LET meta == file.imageMediaMetadata
        parts == IF ~meta.present THEN <<>>
                 ELSE IF impl = "generator" THEN GenSettingsParts(meta)
                 ELSE LibSettingsParts(meta)
        sep == IF impl = "generator" THEN " <U+00B7> " ELSE " <U+2022> "
    IN [settings |-> IF Len(parts) > 0 THEN Join(parts, sep) ELSE Null,
        exposure |-> IF meta.present /\ ExposureTruthy(meta.exposureTime)
                     THEN (IF impl = "generator" THEN GenShutter(meta.exposureTime)
                           ELSE LibExposure(meta.exposureTime))
                     ELSE Null,
        fileSize |-> IF file.size.present
                     THEN (IF impl = "generator" THEN GenFormatFileSize(file.size.bytes)
                           ELSE LibFormatFileSize(file.size.bytes))
                     ELSE Null]

\* exposure times listed, in thousandths of a second
ExposureInputs ==
    { [kind |-> "num", th |-> t, text |-> ""] :
        t \in {0, 1, 4, 8, 16, 80, 400, 500, 999, 1000, 2000, 2500, 30000} }
    \cup { [kind |-> "str", th |-> 0, text |-> "1/60"] }

NoMetadata == [present |-> FALSE, focalLength |-> 0, aperture |-> 0,
               exposureTime |-> NoExposure, isoSpeed |-> 0]

MetadataInputs ==
    { NoMetadata }
    \cup [present : {TRUE}, focalLength : {0, 50000}, aperture : {0, 2800},
          exposureTime : ExposureInputs, isoSpeed : {0, 100000}]

\* file.size as listed: absent, or a decimal string read by parseInt
SizeInputs ==
    { [present |-> FALSE, bytes |-> 0] }
    \cup { [present |-> TRUE, bytes |-> n] :
             n \in {0, 1, 256, 500, 1023, 1024, 1075, 1076, 1280, 2048, 1048575,
                    1048576, 5242880, 1073741824, 1610612736} }

NoRecordMetadata == [settings |-> Null, exposure |-> Null, fileSize |-> Null]

FmParked ==
    /\ fmPc = "parked"
    /\ fmFile = [imageMediaMetadata |-> NoMetadata, size |-> [present |-> FALSE, bytes |-> 0]]
    /\ fmImpl = "none"
    /\ fmOut = NoRecordMetadata

FmInit ==
    /\ fmPc = "ready"
    /\ fmFile \in [imageMediaMetadata : MetadataInputs, size : SizeInputs]
    /\ fmImpl = "none"
    /\ fmOut = NoRecordMetadata

\* generate-gallery-data, fetchImagesFromDrive: the map callback on one file
GeneratorRecord ==
    /\ fmPc = "ready"
    /\ fmImpl' = "generator"
    /\ fmOut' = RecordMetadata("generator", fmFile)
    /\ fmPc' = "done"
    /\ UNCHANGED <<fmFile, fmOthers>>

\* lib/google-drive, fetchImagesFromDrive: the map callback on one file
LibraryRecord ==
    /\ fmPc = "ready"
    /\ fmImpl' = "library"
    /\ fmOut' = RecordMetadata("library", fmFile)
    /\ fmPc' = "done"
    /\ UNCHANGED <<fmFile, fmOthers>>

FmNext == GeneratorRecord \/ LibraryRecord

----------------------------------------------------------------------------
(* fetchImagesFromDrive: the gallery generator's copy (generate-gallery-    *)
(* data) and the runtime library's copy (lib/google-drive.ts)               *)

\* s.startsWith(p)
StartsWith(s, p) == Len(s) >= Len(p) /\ SubSeq(s, 1, Len(p)) = p

\* s.includes(t)
StrIncludes(s, t) ==
    \E i \in 1..(Len(s) - Len(t) + 1) : SubSeq(s, i, i + Len(t) - 1) = t

\* s.replace(a, b) for a string pattern: the first occurrence only
StrReplace(s, a, b) ==
    IF ~StrIncludes(s, a) THEN s
    ELSE LET i == CHOOSE k \in 1..(Len(s) - Len(a) + 1) :
                      /\ SubSeq(s, k, k + Len(a) - 1) = a
                      /\ \A j \in 1..(k - 1) : SubSeq(s, j, j + Len(a) - 1) # a
         IN SubSeq(s, 1, i - 1) \o b \o SubSeq(s, i + Len(a), Len(s))

\* name.replace(/\.[^/.]+$/, ''): the last dot and what follows it are cut
\* when at least one character follows and none of them is a slash
StripExtension(name) ==
    LET dots == { i \in 1..Len(name) : SubSeq(name, i, i) = "." }
    IN IF dots = {} THEN name
       ELSE LET last == CHOOSE i \in dots : \A j \in dots : j <= i
            IN IF last < Len(name)
                  /\ \A j \in (last + 1)..Len(name) : SubSeq(name, j, j) # "/"
               THEN SubSeq(name, 1, last - 1)
               ELSE name

\* `${value}` of a string that may be undefined
Interpolate(s) == IF s = Null THEN "undefined" ELSE s

\* a number that may be missing from the listing
NoNumber == [present |-> FALSE, n |-> 0]
Number(n) == [present |-> TRUE, n |-> n]

\* a || b on a number that may be missing: undefined and 0 are falsy
NumberOrElse(a, b) == IF a.present /\ a.n # 0 THEN a.n ELSE b

DefaultWidth == 1920
DefaultHeight == 1080

\* plausible bug: the fallback id does not carry the index
FallbackId_NoIndex(index) == "image-"

\* `image-${index}`
FallbackId(index) == "image-" \o ToString(index)

\* generator, fetchImagesFromDrive: the record built by the map callback
\* for files[index] (index counts from 0)
GenImageRecord(file, index, category) ==
    LET imageMetadata == file.imageMediaMetadata
        title == IF file.name # Null /\ StripExtension(file.name) # ""
                 THEN StripExtension(file.name)
                 ELSE "Image " \o ToString(index + 1)
    IN [id |-> IF Truthy(file.id) THEN file.id ELSE FallbackId(index),
        src |-> "/api/google-drive/image?id=" \o Interpolate(file.id)
                    \o "&size=full&format=webp",
        thumbnail |-> "/api/google-drive/image?id=" \o Interpolate(file.id)
                          \o "&size=thumbnail",
        blurDataURL |-> "https://drive.google.com/thumbnail?id="
                            \o Interpolate(file.id) \o "&sz=w64",
        alt |-> title,
        title |-> title,
        description |-> "",
        category |-> category,
        width |-> IF imageMetadata.present
                  THEN NumberOrElse(imageMetadata.width, DefaultWidth)
                  ELSE DefaultWidth,
        height |-> IF imageMetadata.present
                   THEN NumberOrElse(imageMetadata.height, DefaultHeight)
                   ELSE DefaultHeight,
        metadata |-> RecordMetadata("generator", file)]

\* library, fetchImagesFromDrive: the record built by the map callback
LibImageRecord(file, index, category) ==
    LET imageMetadata == file.imageMediaMetadata
        blurUrl == IF Truthy(file.thumbnailLink)
                   THEN StrReplace(file.thumbnailLink, "=s220", "=s32")
                   ELSE "https://drive.google.com/thumbnail?id="
                            \o Interpolate(file.id) \o "&sz=w32"
        thumbnailUrl == "/api/google-drive/image?id=" \o Interpolate(file.id)
                            \o "&size=thumbnail"
        fullSizeUrl == "/api/google-drive/image?id=" \o Interpolate(file.id)
                           \o "&size=full"
        title == IF file.name # Null /\ StripExtension(file.name) # ""
                 THEN StripExtension(file.name)
                 ELSE "Image " \o ToString(index + 1)
    IN [id |-> IF Truthy(file.id) THEN file.id ELSE FallbackId(index),
        src |-> fullSizeUrl,
        thumbnail |-> thumbnailUrl,
        blurDataURL |-> blurUrl,
        alt |-> title,
        title |-> title,
        description |-> "",
        category |-> category,
        width |-> IF imageMetadata.present
                  THEN NumberOrElse(imageMetadata.width, DefaultWidth)
                  ELSE DefaultWidth,
        height |-> IF imageMetadata.present
                   THEN NumberOrElse(imageMetadata.height, DefaultHeight)
                   ELSE DefaultHeight,
        metadata |-> RecordMetadata("library", file)]

\* files.map(callback)
ImageRecords(impl, files, category) ==
    [i \in 1..Len(files) |->
        IF impl = "generator" THEN GenImageRecord(files[i], i - 1, category)
        ELSE LibImageRecord(files[i], i - 1, category)]

\* imageMediaMetadata with its width and height
ImageMetadata(width, height) ==
    [present |-> TRUE, width |-> width, height |-> height,
     focalLength |-> 50000, aperture |-> 2800,
     exposureTime |-> [kind |-> "num", th |-> 4, text |-> ""], isoSpeed |-> 100000]

NoImageMetadata ==
    [present |-> FALSE, width |-> NoNumber, height |-> NoNumber,
     focalLength |-> 0, aperture |-> 0, exposureTime |-> NoExposure, isoSpeed |-> 0]

\* files as drive.files.list returns them; decodable tells whether the bytes
\* behind the id are an image sharp can read
FileSunset ==
    [id |-> "1aB", name |-> "sunset.jpg", decodable |-> TRUE,
     thumbnailLink |-> "https://lh3.googleusercontent.com/d/1aB=s220",
     size |-> [present |-> TRUE, bytes |-> 5242880],
     imageMediaMetadata |-> ImageMetadata(Number(4000), Number(3000))]

FileWidthOnly ==
    [id |-> "2cD", name |-> "IMG_0042.v2.png", decodable |-> TRUE,
     thumbnailLink |-> Null,
     size |-> [present |-> TRUE, bytes |-> 1280],
     imageMediaMetadata |-> ImageMetadata(Number(4000), NoNumber)]

FileZeroWidth ==
    [id |-> "3eF", name |-> Null, decodable |-> TRUE,
     thumbnailLink |-> Null,
     size |-> [present |-> FALSE, bytes |-> 0],
     imageMediaMetadata |-> ImageMetadata(Number(0), Number(3000))]

FileNoId ==
    [id |-> Null, name |-> ".hidden", decodable |-> TRUE,
     thumbnailLink |-> Null,
     size |-> [present |-> FALSE, bytes |-> 0],
     imageMediaMetadata |-> NoImageMetadata]

FileNoIdHeightOnly ==
    [id |-> Null, name |-> "portrait", decodable |-> TRUE,
     thumbnailLink |-> "https://lh3.googleusercontent.com/d/x=s220",
     size |-> [present |-> TRUE, bytes |-> 500],
     imageMediaMetadata |-> ImageMetadata(NoNumber, Number(3000))]

FileBroken ==
    [id |-> "4gH", name |-> "broken.jpg", decodable |-> FALSE,
     thumbnailLink |-> Null,
     size |-> [present |-> TRUE, bytes |-> 2048],
     imageMediaMetadata |-> NoImageMetadata]

ListedFiles ==
    {FileSunset, FileWidthOnly, FileZeroWidth, FileNoId, FileNoIdHeightOnly, FileBroken}

\* longest listing drawn
MaxFiles == 2

\* the provider gives every file its own id
DistinctIds(files) ==
    \A i, j \in 1..Len(files) :
        (i # j /\ files[i].id # Null) => files[i].id # files[j].id

Listings ==
    { files \in UNION { [1..n -> ListedFiles] : n \in 0..MaxFiles } :
        DistinctIds(files) }

\* what the awaited drive.files.list gives: a response whose data.files may
\* be missing, or a rejection. status is the kind of the failure (401: the
\* credentials were refused, 404, 403, 500: anything else); isError tells
\* whether the value thrown is an Error
ListOk(files) == [ok |-> TRUE, hasFiles |-> TRUE, files |-> files,
                  status |-> 200, isError |-> FALSE, message |-> ""]
ListNoFiles == [ok |-> TRUE, hasFiles |-> FALSE, files |-> <<>>,
                status |-> 200, isError |-> FALSE, message |-> ""]
ListError(status, isError, message) ==
    [ok |-> FALSE, hasFiles |-> FALSE, files |-> <<>>,
     status |-> status, isError |-> isError, message |-> message]

ListFailures ==
    { ListError(401, TRUE, "invalid_grant: Invalid JWT Signature."),
      ListError(401, TRUE, "Could not load the default credentials."),
      ListError(404, TRUE, "File not found: folderA."),
      ListError(404, TRUE, "Request failed with status code 404"),
      ListError(404, TRUE, "File not found: 1x403Qz."),
      ListError(403, TRUE, "The user does not have sufficient permissions for this file."),
      ListError(403, TRUE, "Request failed with status code 403"),
      ListError(403, TRUE, "The user does not have sufficient permissions for file 1x404Qz."),
      ListError(500, TRUE, "getaddrinfo ENOTFOUND www.googleapis.com"),
      ListError(500, FALSE, "") }

ListAnswers == { ListOk(files) : files \in Listings } \cup { ListNoFiles } \cup ListFailures

\* generator, getDriveClient(): the Error thrown, if any
GenGetDriveClient(env) ==
    IF ~Truthy(env.clientEmail) \/ ~Truthy(env.privateKey)
    THEN ErrorOf("Google Drive credentials not found. Please set GOOGLE_DRIVE_CLIENT_EMAIL and GOOGLE_DRIVE_PRIVATE_KEY")
    ELSE NoError

\* library, getDriveClient(): the Error thrown, if any
LibGetDriveClient(env) ==
    IF ~Truthy(env.clientEmail) \/ ~Truthy(env.privateKey)
    THEN ErrorOf("Google Drive credentials not found. Please set GOOGLE_DRIVE_CLIENT_EMAIL and GOOGLE_DRIVE_PRIVATE_KEY environment variables.")
    ELSE NoError

\* library, fetchImagesFromDrive: the catch block, on the value caught
LibCatch(error, folderId) ==
    IF error.isError /\ StrIncludes(error.message, "credentials")
    THEN ErrorOf("Invalid Google Drive credentials. Please check your service account configuration.")
    ELSE IF error.isError /\ StrIncludes(error.message, "404")
    THEN ErrorOf("Folder not found: " \o folderId
                     \o ". Please check the folder ID and sharing permissions.")
    ELSE IF error.isError /\ StrIncludes(error.message, "403")
    THEN ErrorOf("Access denied to folder " \o folderId
                     \o ". Ensure the service account has been granted access to this folder.")
    ELSE ErrorOf("Failed to fetch images from Google Drive: "
                     \o (IF error.isError THEN error.message ELSE "Unknown error"))

\* the value a rejected drive.files.list throws
Rejection(answer) ==
    [thrown |-> TRUE, isError |-> answer.isError, message |-> answer.message]

Impls == {"generator", "library"}
FolderIds == {"folderA", "1x403Qz"}
CategoryNames == {"Portrait"}

NoResult == [returned |-> FALSE, images |-> <<>>, error |-> NoError]
Returned(images) == [returned |-> TRUE, images |-> images, error |-> NoError]
Thrown(error) == [returned |-> FALSE, images |-> <<>>, error |-> error]

NoArgs == [folderId |-> Null, category |-> Null]

LsParked ==
    /\ lsPc = "parked"
    /\ lsImpl = "none"
    /\ lsArgs = NoArgs
    /\ lsEnv = [clientEmail |-> Null, privateKey |-> Null]
    /\ lsRemote = ListNoFiles
    /\ lsListCalls = 0
    /\ lsResult = NoResult

LsInit ==
    /\ lsPc = "ready"
    /\ lsImpl = "none"
    /\ lsArgs \in [folderId : FolderIds, category : CategoryNames]
    /\ lsEnv \in [clientEmail : EnvValues, privateKey : EnvValues]
    /\ lsRemote \in ListAnswers
    /\ lsListCalls = 0
    /\ lsResult = NoResult

\* fetchImagesFromDrive(folderId, category) up to the awaited list call:
\* getDriveClient() throws, or the request is sent
FetchStart(impl) ==
    /\ lsPc = "ready"
    /\ lsImpl' = impl
    /\ LET client == IF impl = "generator" THEN GenGetDriveClient(lsEnv)
                     ELSE LibGetDriveClient(lsEnv)
       IN IF client.thrown
          THEN /\ lsResult' = Thrown(IF impl = "generator" THEN client
                                     ELSE LibCatch(client, lsArgs.folderId))
               /\ lsPc' = "done"
               /\ UNCHANGED lsListCalls
          ELSE /\ lsListCalls' = lsListCalls + 1
               /\ lsPc' = "listing"
               /\ UNCHANGED lsResult
    /\ UNCHANGED <<lsArgs, lsEnv, lsRemote>>
    /\ UNCHANGED lsOthers

\* the list call settles: the records are built and returned, or the
\* rejection goes to the caller (the library's copy through its catch block)
FetchSettled ==
    /\ lsPc = "listing"
    /\ lsResult' =
         IF lsRemote.ok
         THEN Returned(ImageRecords(lsImpl, lsRemote.files, lsArgs.category))
         ELSE Thrown(IF lsImpl = "generator" THEN Rejection(lsRemote)
                     ELSE LibCatch(Rejection(lsRemote), lsArgs.folderId))
    /\ lsPc' = "done"
    /\ UNCHANGED <<lsImpl, lsArgs, lsEnv, lsRemote, lsListCalls>>
    /\ UNCHANGED lsOthers

LsNext == (\E impl \in Impls : FetchStart(impl)) \/ FetchSettled

----------------------------------------------------------------------------
(* generate-gallery-data: main() *)

\* the first two of the five entries of GALLERIES; the loop body uses an
\* entry only through these three fields
GALLERIES ==
    << [slug |-> "editorial", name |-> "Editorial",
        folderIdEnvVar |-> "GOOGLE_DRIVE_EDITORIAL_FOLDER_ID"],
       [slug |-> "graduation", name |-> "Graduation",
        folderIdEnvVar |-> "GOOGLE_DRIVE_GRADUATION_FOLDER_ID"] >>

GallerySlugs == { GALLERIES[i].slug : i \in 1..Len(GALLERIES) }
FolderEnvVars == { GALLERIES[i].folderIdEnvVar : i \in 1..Len(GALLERIES) }

\* runs of a generator followed
MaxRuns == 2

\* the folders of the drive, in two states of their contents: what
\* drive.files.list answers for a folder id
DriveStates == {"before", "after"}

DriveFolder(drive, folderId) ==
    IF folderId = "folderA"
    THEN IF drive = "before"
         THEN ListOk(<<FileSunset, FileWidthOnly, FileBroken, FileNoId, FileNoIdHeightOnly>>)
         ELSE ListOk(<<FileSunset, FileZeroWidth>>)
    ELSE ListError(404, TRUE, "File not found: " \o folderId \o ".")

\* values of a GOOGLE_DRIVE_*_FOLDER_ID variable: unset, empty, a folder
\* the service account can list, a folder that is gone
FolderValues == {Null, "", "folderA", "folderGone"}

GalleryEnvs ==
    [clientEmail : {Null, "set"}, privateKey : {"set"},
     folders : [FolderEnvVars -> FolderValues]]

\* a manifest file: absent, or the JSON array written
NoManifest == [present |-> FALSE, images |-> <<>>]
Manifest(images) == [present |-> TRUE, images |-> images]

NoGalleryEnv ==
    [clientEmail |-> Null, privateKey |-> Null,
     folders |-> [v \in FolderEnvVars |-> Null]]

NoManifests == [s \in GallerySlugs |-> NoManifest]

NoPreviousRun == [ran |-> FALSE, env |-> NoGalleryEnv, drive |-> "before",
                  written |-> NoManifests]

\* plausible bug: a record carries something of the run that produced it
GalleryImages_Stamped(images, run) ==
    [i \in 1..Len(images) |->
        [images[i] EXCEPT !.description = "run " \o ToString(run)]]

\* the array passed to JSON.stringify: the images as fetched
GalleryImages(images, run) == images

\* plausible bug: only an unset variable is skipped, an empty one is listed
FolderIdMissing_UnsetOnly(folderId) == folderId = Null

\* !folderId
FolderIdMissing(folderId) == ~Truthy(folderId)

\* fetchImagesFromDrive(folderId, gallery.name) of the generator, run to its
\* end: what it returns or throws, and whether drive.files.list was called
GalleryFetch(env, drive, folderId, category) ==
    LET client == GenGetDriveClient(env)
        answer == DriveFolder(drive, folderId)
    IN IF client.thrown THEN [listed |-> FALSE, result |-> Thrown(client)]
       ELSE IF answer.ok
       THEN [listed |-> TRUE,
             result |-> Returned(ImageRecords("generator", answer.files, category))]
       ELSE [listed |-> TRUE, result |-> Thrown(Rejection(answer))]

GgParked ==
    /\ ggPc = "parked"
    /\ ggRun = 0
    /\ ggEnv = NoGalleryEnv
    /\ ggDrive = "before"
    /\ ggIndex = 0
    /\ ggListCalls = <<>>
    /\ ggWritten = NoManifests
    /\ ggDisk = NoManifests
    /\ ggPrev = NoPreviousRun
    /\ ggExit = "none"

\* before the first run: src/generated holds no manifest
GgInit ==
    /\ ggPc = "ready"
    /\ ggRun = 1
    /\ ggEnv = NoGalleryEnv
    /\ ggDrive = "before"
    /\ ggIndex = 0
    /\ ggListCalls = <<>>
    /\ ggWritten = NoManifests
    /\ ggDisk = NoManifests
    /\ ggPrev = NoPreviousRun
    /\ ggExit = "none"

ggGallery == GALLERIES[ggIndex]
ggFolderId == ggEnv.folders[ggGallery.folderIdEnvVar]
ggInLoop == ggPc = "loop" /\ ggIndex <= Len(GALLERIES)

\* main() up to the for loop: loadEnv() and the output directory
GalleryRunStart ==
    /\ ggPc = "ready"
    /\ ggEnv' \in GalleryEnvs
    /\ ggDrive' \in DriveStates
    /\ ggIndex' = 1
    /\ ggListCalls' = <<>>
    /\ ggWritten' = NoManifests
    /\ ggPc' = "loop"
    /\ UNCHANGED <<ggRun, ggDisk, ggPrev, ggExit>>
    /\ UNCHANGED ggOthers

\* one iteration: no folder id, continue
GallerySkip ==
    /\ ggInLoop
    /\ FolderIdMissing(ggFolderId)
    /\ ggIndex' = ggIndex + 1
    /\ UNCHANGED <<ggPc, ggRun, ggEnv, ggDrive, ggListCalls, ggWritten, ggDisk,
                   ggPrev, ggExit>>
    /\ UNCHANGED ggOthers

\* one iteration: fetchImagesFromDrive throws, the catch block logs
GalleryFetchFails ==
    /\ ggInLoop
    /\ ~FolderIdMissing(ggFolderId)
    /\ LET fetch == GalleryFetch(ggEnv, ggDrive, ggFolderId, ggGallery.name)
       IN /\ ~fetch.result.returned
          /\ ggListCalls' = IF fetch.listed THEN Append(ggListCalls, ggFolderId)
                            ELSE ggListCalls
    /\ ggIndex' = ggIndex + 1
    /\ UNCHANGED <<ggPc, ggRun, ggEnv, ggDrive, ggWritten, ggDisk, ggPrev, ggExit>>
    /\ UNCHANGED ggOthers

\* one iteration: the images are fetched and gallery-<slug>.json is written
GalleryWritten ==
    /\ ggInLoop
    /\ ~FolderIdMissing(ggFolderId)
    /\ LET fetch == GalleryFetch(ggEnv, ggDrive, ggFolderId, ggGallery.name)
           file == Manifest(GalleryImages(fetch.result.images, ggRun))
       IN /\ fetch.result.returned
          /\ ggListCalls' = Append(ggListCalls, ggFolderId)
          /\ ggWritten' = [ggWritten EXCEPT ![ggGallery.slug] = file]
          /\ ggDisk' = [ggDisk EXCEPT ![ggGallery.slug] = file]
    /\ ggIndex' = ggIndex + 1
    /\ UNCHANGED <<ggPc, ggRun, ggEnv, ggDrive, ggPrev, ggExit>>
    /\ UNCHANGED ggOthers

\* one iteration: the images are fetched, writeFile rejects (the file cannot
\* be opened), the catch block logs
GalleryWriteFails ==
    /\ ggInLoop
    /\ ~FolderIdMissing(ggFolderId)
    /\ GalleryFetch(ggEnv, ggDrive, ggFolderId, ggGallery.name).result.returned
    /\ ggListCalls' = Append(ggListCalls, ggFolderId)
    /\ ggIndex' = ggIndex + 1
    /\ UNCHANGED <<ggPc, ggRun, ggEnv, ggDrive, ggWritten, ggDisk, ggPrev, ggExit>>
    /\ UNCHANGED ggOthers

\* after the loop: the summary is logged and main() resolves
GalleryRunEnd ==
    /\ ggPc = "loop"
    /\ ggIndex > Len(GALLERIES)
    /\ ggPc' = "done"
    /\ ggExit' = "resolved"
    /\ UNCHANGED <<ggRun, ggEnv, ggDrive, ggIndex, ggListCalls, ggWritten, ggDisk,
                   ggPrev>>
    /\ UNCHANGED ggOthers

\* the script is started again
GalleryNextRun ==
    /\ ggPc = "done"
    /\ ggRun < MaxRuns
    /\ ggPrev' = [ran |-> TRUE, env |-> ggEnv, drive |-> ggDrive, written |-> ggWritten]
    /\ ggRun' = ggRun + 1
    /\ ggPc' = "ready"
    /\ ggExit' = "none"
    /\ UNCHANGED <<ggEnv, ggDrive, ggIndex, ggListCalls, ggWritten, ggDisk>>
    /\ UNCHANGED ggOthers

----------------------------------------------------------------------------
(* generate-cover-thumbnails: main() *)

CoverMapping(slug, title, order, fileId) ==
    [categorySlug |-> slug, displayTitle |-> title, displayOrder |-> order,
     fileId |-> fileId]

\* GALLERY_COVER_MAPPINGS as declared; the file ids stand for what the drive
\* holds behind them (the third is not an image)
DeclaredMappings ==
    << CoverMapping("editorial", "Editorial", 1, "fWide"),
       CoverMapping("graduation", "Graduation", 2, "fTall"),
       CoverMapping("portraits", "Portrait", 3, "fText"),
       CoverMapping("engagement", "Engagement", 4, "fSmall"),
       CoverMapping("events", "Event", 5, "fWide") >>

\* the mapping lists tried: the declared one, and lists with entries in
\* another order, without a file id, or whose file is gone
CoverMappingLists ==
    { DeclaredMappings,
      << CoverMapping("events", "Event", 5, "fWide"),
         CoverMapping("editorial", "Editorial", 1, "fTall"),
         CoverMapping("graduation", "Graduation", 2, "fSmall") >>,
      << CoverMapping("editorial", "Editorial", 1, Null),
         CoverMapping("graduation", "Graduation", 2, "fGone"),
         CoverMapping("portraits", "Portrait", 3, "fWide") >>,
      << CoverMapping("editorial", "Editorial", 1, "fSmall"),
         CoverMapping("graduation", "Graduation", 2, ""),
         CoverMapping("portraits", "Portrait", 3, "fTall") >> }

CoverSlugs == {"editorial", "graduation", "portraits", "engagement", "events"}

CoverEnvs == [clientEmail : {Null, "set"}, privateKey : {"set"}]

\* downloadImage(fileId): the buffer, or the Error thrown
downloadImage(env, fileId) ==
    LET client == GenGetDriveClient(env)
    IN IF client.thrown THEN [ok |-> FALSE, file |-> DriveFiles["fGone"], called |-> FALSE]
       ELSE [ok |-> DriveFiles[fileId].kind # "error", file |-> DriveFiles[fileId],
             called |-> TRUE]

\* `data:image/webp;base64,${blurBuffer.toString('base64')}`; the payload
\* is named after the size of the placeholder encoded
BlurDataURL(native) ==
    LET blur == generateBlurPlaceholder(native)
    IN "data:image/webp;base64," \o "<" \o ToString(blur.w) \o "x"
           \o ToString(blur.h) \o ">"

\* the object pushed to results
CoverRecord(mapping, native) ==
    LET thumbnailInfo == generateThumbnail(native, CoverThumbnailWidth)
        outputFilename == mapping.categorySlug \o ".webp"
    IN [categorySlug |-> mapping.categorySlug,
        displayTitle |-> mapping.displayTitle,
        displayOrder |-> mapping.displayOrder,
        filename |-> outputFilename,
        path |-> "/gallery-covers/" \o outputFilename,
        width |-> thumbnailInfo.w,
        height |-> thumbnailInfo.h,
        size |-> "<bytes>",
        format |-> "webp",
        blurDataURL |-> BlurDataURL(native)]

\* a cover image file: absent, or present and written by a run
NoCover == [present |-> FALSE, run |-> 0]

\* plausible bug: the record is pushed although no file was written
CoverBy_NotWritten(run) == [present |-> FALSE, run |-> 0]

CoverBy(run) == [present |-> TRUE, run |-> run]

\* cover-thumbnails.json: absent, or the results written by a run
NoCoverManifest == [present |-> FALSE, run |-> 0, records |-> <<>>]

CgParked ==
    /\ cgPc = "parked"
    /\ cgRun = 0
    /\ cgEnv = [clientEmail |-> Null, privateKey |-> Null]
    /\ cgMappings = <<>>
    /\ cgIndex = 0
    /\ cgResults = <<>>
    /\ cgCovers = [s \in CoverSlugs |-> NoCover]
    /\ cgManifest = NoCoverManifest
    /\ cgLog = <<>>
    /\ cgExit = "none"
    /\ cgSaves = <<>>

\* before the first run: neither directory holds a file
CgInit ==
    /\ cgPc = "ready"
    /\ cgRun = 1
    /\ cgEnv = [clientEmail |-> Null, privateKey |-> Null]
    /\ cgMappings \in CoverMappingLists
    /\ cgIndex = 0
    /\ cgResults = <<>>
    /\ cgCovers = [s \in CoverSlugs |-> NoCover]
    /\ cgManifest = NoCoverManifest
    /\ cgLog = <<>>
    /\ cgExit = "none"
    /\ cgSaves = <<>>

cgMapping == cgMappings[cgIndex]
cgInLoop == cgPc = "loop" /\ cgIndex <= Len(cgMappings)

\* main() up to the for loop: loadEnv(), the two directories, results = []
CoverRunStart ==
    /\ cgPc = "ready"
    /\ cgEnv' \in CoverEnvs
    /\ cgIndex' = 1
    /\ cgResults' = <<>>
    /\ cgLog' = <<>>
    /\ cgPc' = "loop"
    /\ UNCHANGED <<cgRun, cgMappings, cgCovers, cgManifest, cgExit>>
    /\ cgSaves' = <<>>
    /\ UNCHANGED cgOthers

\* one iteration: no file id, continue
CoverSkip ==
    /\ cgInLoop
    /\ ~Truthy(cgMapping.fileId)
    /\ cgLog' = Append(cgLog, "skipped")
    /\ cgIndex' = cgIndex + 1
    /\ UNCHANGED <<cgPc, cgRun, cgEnv, cgMappings, cgResults, cgCovers, cgManifest,
                   cgExit>>
    /\ UNCHANGED cgSaves
    /\ UNCHANGED cgOthers

\* one iteration: downloadImage throws, the catch block logs
CoverDownloadFails ==
    /\ cgInLoop
    /\ Truthy(cgMapping.fileId)
    /\ ~downloadImage(cgEnv, cgMapping.fileId).ok
    /\ cgLog' = Append(cgLog, "download failed")
    /\ cgIndex' = cgIndex + 1
    /\ UNCHANGED <<cgPc, cgRun, cgEnv, cgMappings, cgResults, cgCovers, cgManifest,
                   cgExit>>
    /\ UNCHANGED cgSaves
    /\ UNCHANGED cgOthers

\* one iteration: sharp cannot read the buffer in generateThumbnail, the
\* catch block logs
CoverDecodeFails ==
    /\ cgInLoop
    /\ Truthy(cgMapping.fileId)
    /\ downloadImage(cgEnv, cgMapping.fileId).ok
    /\ downloadImage(cgEnv, cgMapping.fileId).file.kind # "image"
    /\ cgLog' = Append(cgLog, "decode failed")
    /\ cgIndex' = cgIndex + 1
    /\ UNCHANGED <<cgPc, cgRun, cgEnv, cgMappings, cgResults, cgCovers, cgManifest,
                   cgExit>>
    /\ UNCHANGED cgSaves
    /\ UNCHANGED cgOthers

\* one iteration: writeFile of the thumbnail rejects (the file cannot be
\* opened), the catch block logs
CoverWriteFails ==
    /\ cgInLoop
    /\ Truthy(cgMapping.fileId)
    /\ downloadImage(cgEnv, cgMapping.fileId).ok
    /\ downloadImage(cgEnv, cgMapping.fileId).file.kind = "image"
    /\ cgLog' = Append(cgLog, "write failed")
    /\ cgIndex' = cgIndex + 1
    /\ UNCHANGED <<cgPc, cgRun, cgEnv, cgMappings, cgResults, cgCovers, cgManifest,
                   cgExit>>
    /\ UNCHANGED cgSaves
    /\ UNCHANGED cgOthers

\* one iteration: <slug>.webp is written, the placeholder is generated and
\* the record is pushed
CoverDone ==
    /\ cgInLoop
    /\ Truthy(cgMapping.fileId)
    /\ LET download == downloadImage(cgEnv, cgMapping.fileId)
       IN /\ download.ok
          /\ download.file.kind = "image"
          /\ cgCovers' = [cgCovers EXCEPT ![cgMapping.categorySlug] = CoverBy(cgRun)]
          /\ cgResults' = Append(cgResults,
                 CoverRecord(cgMapping, [w |-> download.file.w, h |-> download.file.h]))
    /\ cgLog' = Append(cgLog, "done")
    /\ cgIndex' = cgIndex + 1
    /\ UNCHANGED <<cgPc, cgRun, cgEnv, cgMappings, cgManifest, cgExit>>
    /\ UNCHANGED cgSaves
    /\ UNCHANGED cgOthers

\* plausible bug: only the record pushed last reaches the manifest
CoverManifestRecords_LastOnly(results) ==
    IF results = <<>> THEN <<>> ELSE <<results[Len(results)]>>

\* the results as they are passed to JSON.stringify
CoverManifestRecords(results) == results

\* after the loop: cover-thumbnails.json is written and main() resolves
CoverSaveManifest ==
    /\ cgPc = "loop"
    /\ cgIndex > Len(cgMappings)
    /\ cgManifest' = [present |-> TRUE, run |-> cgRun,
                      records |-> CoverManifestRecords(cgResults)]
    /\ cgPc' = "done"
    /\ cgExit' = "resolved"
    /\ UNCHANGED <<cgRun, cgEnv, cgMappings, cgIndex, cgResults, cgCovers, cgLog>>
    /\ cgSaves' = Append(cgSaves, cgIndex)
    /\ UNCHANGED cgOthers

\* after the loop: writeFile of cover-thumbnails.json rejects; main() rejects
\* and the script exits with code 1
CoverSaveFails ==
    /\ cgPc = "loop"
    /\ cgIndex > Len(cgMappings)
    /\ cgPc' = "done"
    /\ cgExit' = "rejected"
    /\ UNCHANGED <<cgRun, cgEnv, cgMappings, cgIndex, cgResults, cgCovers,
                   cgManifest, cgLog>>
    /\ UNCHANGED cgSaves
    /\ UNCHANGED cgOthers

\* the script is started again
CoverNextRun ==
    /\ cgPc = "done"
    /\ cgRun < MaxRuns
    /\ cgRun' = cgRun + 1
    /\ cgPc' = "ready"
    /\ cgExit' = "none"
    /\ UNCHANGED <<cgEnv, cgMappings, cgIndex, cgResults, cgCovers, cgManifest, cgLog>>
    /\ UNCHANGED cgSaves
    /\ UNCHANGED cgOthers

----------------------------------------------------------------------------
(* lib/rate-limit.ts: rateLimit and the hourly cleanup *)

Identifiers == {"a", "b"}

\* config.limit and config.window (in ticks of the clock) tried
Limits == {0, 1, 2, 3}
Windows == {1, 2}

\* last value of Date.now() followed
MaxTime == 3

\* rateLimitMap.get(identifier): undefined, or the entry
NoEntry == [present |-> FALSE, count |-> 0, resetTime |-> 0]
Entry(count, resetTime) == [present |-> TRUE, count |-> count, resetTime |-> resetTime]

NoRateLimitResult == [success |-> FALSE, limit |-> 0, remaining |-> 0, reset |-> 0]

\* if (now > entry.resetTime) in rateLimit
WindowExpired(now, entry) == now > entry.resetTime

\* plausible bug: the cleanup also removes an entry at its reset time, when
\* rateLimit still counts it as active
CleanupExpired_AtReset(now, entry) == now >= entry.resetTime

\* if (now > entry.resetTime) in the cleanup
CleanupExpired(now, entry) == now > entry.resetTime

\* rateLimit(identifier, config) at Date.now() = now on a map: the result
\* returned, the entry the map holds for the identifier afterwards, and
\* whether the call started a window
rateLimit(map, identifier, config, now) ==
    LET entry == map[identifier]
    IN IF ~entry.present \/ WindowExpired(now, entry)
       THEN [result |-> [success |-> TRUE, limit |-> config.limit,
                         remaining |-> config.limit - 1,
                         reset |-> now + config.window],
             entry |-> Entry(1, now + config.window),
             opened |-> TRUE]
       ELSE IF entry.count >= config.limit
       THEN [result |-> [success |-> FALSE, limit |-> config.limit,
                         remaining |-> 0, reset |-> entry.resetTime],
             entry |-> entry,
             opened |-> FALSE]
       ELSE [result |-> [success |-> TRUE, limit |-> config.limit,
                         remaining |-> config.limit - (entry.count + 1),
                         reset |-> entry.resetTime],
             entry |-> Entry(entry.count + 1, entry.resetTime),
             opened |-> FALSE]

NoCall == [called |-> FALSE, identifier |-> "a",
           before |-> NoEntry, after |-> NoEntry, result |-> NoRateLimitResult,
           refBefore |-> NoEntry, refAfter |-> NoEntry, reference |-> NoRateLimitResult]

NoWindow == [present |-> FALSE, at |-> 0]

RlParked ==
    /\ rlPc = "parked"
    /\ rlConfig = [limit |-> 0, window |-> 0]
    /\ rlNow = 0
    /\ rlMap = [i \in Identifiers |-> NoEntry]
    /\ rlReference = [i \in Identifiers |-> NoEntry]
    /\ rlLast = NoCall
    /\ rlOpened = [i \in Identifiers |-> NoWindow]
    /\ rlGrants = [i \in Identifiers |-> <<>>]

\* the module has just been loaded: the map is empty
RlInit ==
    /\ rlPc = "running"
    /\ rlConfig \in [limit : Limits, window : Windows]
    /\ rlNow = 0
    /\ rlMap = [i \in Identifiers |-> NoEntry]
    /\ rlReference = [i \in Identifiers |-> NoEntry]
    /\ rlLast = NoCall
    /\ rlOpened = [i \in Identifiers |-> NoWindow]
    /\ rlGrants = [i \in Identifiers |-> <<>>]

\* one call of rateLimit(identifier, config). rlReference is the map as it
\* would be had the cleanup never run; rlOpened and rlGrants record when the
\* identifier's window was started and the times of its accepted calls
RateLimitCall(identifier) ==
    /\ rlPc = "running"
    /\ LET call == rateLimit(rlMap, identifier, rlConfig, rlNow)
           ref == rateLimit(rlReference, identifier, rlConfig, rlNow)
       IN /\ rlMap' = [rlMap EXCEPT ![identifier] = call.entry]
          /\ rlReference' = [rlReference EXCEPT ![identifier] = ref.entry]
          /\ rlLast' = [called |-> TRUE, identifier |-> identifier,
                        before |-> rlMap[identifier], after |-> call.entry,
                        result |-> call.result,
                        refBefore |-> rlReference[identifier], refAfter |-> ref.entry,
                        reference |-> ref.result]
          /\ rlOpened' = IF call.opened
                         THEN [rlOpened EXCEPT ![identifier] = [present |-> TRUE, at |-> rlNow]]
                         ELSE rlOpened
          /\ rlGrants' = IF call.result.success
                         THEN [rlGrants EXCEPT ![identifier] = Append(@, rlNow)]
                         ELSE rlGrants
    /\ UNCHANGED <<rlPc, rlConfig, rlNow>>
    /\ UNCHANGED rlOthers

\* the setInterval callback: every entry past its reset time is deleted
RateLimitCleanup ==
    /\ rlPc = "running"
    /\ rlMap' = [i \in Identifiers |->
                    IF rlMap[i].present /\ CleanupExpired(rlNow, rlMap[i])
                    THEN NoEntry ELSE rlMap[i]]
    /\ UNCHANGED <<rlPc, rlConfig, rlNow, rlReference, rlLast, rlOpened, rlGrants>>
    /\ UNCHANGED rlOthers

\* the clock advances
RateLimitTick ==
    /\ rlPc = "running"
    /\ rlNow < MaxTime
    /\ rlNow' = rlNow + 1
    /\ UNCHANGED <<rlPc, rlConfig, rlMap, rlReference, rlLast, rlOpened, rlGrants>>
    /\ UNCHANGED rlOthers

RlNext == (\E identifier \in Identifiers : RateLimitCall(identifier))
              \/ RateLimitCleanup \/ RateLimitTick

----------------------------------------------------------------------------
(* The revalidation endpoint: api/revalidate/route.ts *)

\* a value of the parsed JSON body: undefined, a string or an array
JsUndefined == [type |-> "undefined", str |-> "", items |-> <<>>]

JsString(s) == [type |-> "string", str |-> s, items |-> <<>>]

JsArray(items) == [type |-> "array", str |-> "", items |-> items]

\* JavaScript truthiness of such a value: every array is truthy
JsTruthy(v) ==
    CASE v.type = "undefined" -> FALSE
      [] v.type = "string" -> v.str # ""
      [] v.type = "array" -> TRUE

IsArray(v) == v.type = "array"

\* the body did not parse: request.json() rejects
InvalidJson == [parsed |-> FALSE, paths |-> JsUndefined, category |-> JsUndefined]

JsonBody(paths, category) == [parsed |-> TRUE, paths |-> paths, category |-> category]

RevalidateSecrets == {Null, "", "s3cret"}

SecretHeaders == {Null, "", "s3cret", "wrong"}

RevalidateBodies ==
    {InvalidJson} \cup
    {JsonBody(p, c) : p \in {JsUndefined, JsArray(<<>>),
                             JsArray(<<"/gallery/portraits", "/gallery">>),
                             JsString("/gallery")},
                      c \in {JsUndefined, JsString(""), JsString("portraits")}}

RevalidateRequests == [method : {"POST"}, secret : SecretHeaders, body : RevalidateBodies]

NoRevalidateRequest == [method |-> "none", secret |-> Null, body |-> InvalidJson]

GetRequest == [method |-> "GET", secret |-> Null, body |-> InvalidJson]

NoRevalidateResponse == [status |-> 0, error |-> "", revalidated |-> <<>>]

\* if (!expectedSecret)
NotConfigured(expectedSecret) == ~Truthy(expectedSecret)

\* a check that lets a request without the header through
SecretRejected_MissingAllowed(secret, expectedSecret) ==
    secret # Null /\ secret # expectedSecret

\* if (secret !== expectedSecret)
SecretRejected(secret, expectedSecret) == secret # expectedSecret

\* getAllGallerySlugs() of config/galleries.ts
AllGallerySlugs ==
    <<"editorial", "graduation", "portraits", "engagement", "events", "dance", "wedding">>

\* the paths the three options pass to revalidatePath, in order
RevalidatedPaths(body) ==
    IF JsTruthy(body.paths) /\ IsArray(body.paths)
    THEN body.paths.items
    ELSE IF JsTruthy(body.category)
         THEN <<"/gallery/" \o body.category.str>>
         ELSE <<"/gallery">>
              \o [i \in 1..Len(AllGallerySlugs) |-> "/gallery/" \o AllGallerySlugs[i]]
              \o <<"/">>

RvParked ==
    /\ rvPc = "parked"
    /\ rvEnv = Null
    /\ rvReq = NoRevalidateRequest
    /\ rvBodyReads = 0
    /\ rvRevalidated = <<>>
    /\ rvResp = NoRevalidateResponse

RvInit ==
    /\ rvPc = "idle"
    /\ rvEnv \in RevalidateSecrets
    /\ rvReq = NoRevalidateRequest
    /\ rvBodyReads = 0
    /\ rvRevalidated = <<>>
    /\ rvResp = NoRevalidateResponse

\* POST up to its await: the two checks on the secret
POST_Start(req) ==
    /\ rvPc = "idle"
    /\ rvReq' = req
    /\ rvBodyReads' = 0
    /\ rvRevalidated' = <<>>
    /\ IF NotConfigured(rvEnv)
       THEN /\ rvResp' = [status |-> 500,
                          error |-> "Revalidation is not configured. Please set REVALIDATE_SECRET in environment variables.",
                          revalidated |-> <<>>]
            /\ rvPc' = "done"
       ELSE IF SecretRejected(req.secret, rvEnv)
            THEN /\ rvResp' = [status |-> 401, error |-> "Invalid revalidation secret",
                               revalidated |-> <<>>]
                 /\ rvPc' = "done"
            ELSE /\ rvResp' = NoRevalidateResponse
                 /\ rvPc' = "reading"
    /\ UNCHANGED rvEnv
    /\ UNCHANGED rvOthers

\* request.json() settles: the paths are revalidated, or the catch block answers
POST_BodyRead ==
    /\ rvPc = "reading"
    /\ rvBodyReads' = rvBodyReads + 1
    /\ IF rvReq.body.parsed
       THEN /\ rvRevalidated' = RevalidatedPaths(rvReq.body)
            /\ rvResp' = [status |-> 200, error |-> "",
                          revalidated |-> RevalidatedPaths(rvReq.body)]
       ELSE /\ rvRevalidated' = <<>>
            /\ rvResp' = [status |-> 500, error |-> "Failed to revalidate paths",
                          revalidated |-> <<>>]
    /\ rvPc' = "done"
    /\ UNCHANGED <<rvEnv, rvReq>>
    /\ UNCHANGED rvOthers

\* GET: the description of the endpoint
RevalidateInfo ==
    /\ rvPc = "idle"
    /\ rvReq' = GetRequest
    /\ rvBodyReads' = 0
    /\ rvRevalidated' = <<>>
    /\ rvResp' = [status |-> 200, error |-> "", revalidated |-> <<>>]
    /\ rvPc' = "done"
    /\ UNCHANGED rvEnv
    /\ UNCHANGED rvOthers

\* the response has been sent; the endpoint takes the next request
RevalidateReturn ==
    /\ rvPc = "done"
    /\ rvPc' = "idle"
    /\ UNCHANGED <<rvEnv, rvReq, rvBodyReads, rvRevalidated, rvResp>>
    /\ UNCHANGED rvOthers

RvNext == (\E req \in RevalidateRequests : POST_Start(req))
              \/ POST_BodyRead \/ RevalidateInfo \/ RevalidateReturn
----------------------------------------------------------------------------
(* The statically generated pages: gallery/[slug]/page.tsx and              *)
(* gallery/page.tsx, which import the manifests the generators write        *)

\* the manifests gallery/[slug]/page.tsx imports, by slug
ImportedSlugs == {"editorial", "graduation", "portraits", "engagement", "events"}

ConfiguredSlugs == { AllGallerySlugs[i] : i \in 1..Len(AllGallerySlugs) }

\* getGalleryBySlug(slug) finds a category
GalleryExists(slug) == slug \in ConfiguredSlugs

\* slugs a category page is asked for: those of generateStaticParams and one
\* that is not a category
PageSlugs == ConfiguredSlugs \cup {"unknown"}

\* what src/generated can hold for one gallery: no file, an empty list, images
GeneratedGalleryFiles ==
    {NoManifest, Manifest(<<>>), Manifest(<<[id |-> "1aB"], [id |-> "2cD"]>>)}

\* what src/generated can hold as cover-thumbnails.json
GeneratedCoverFiles ==
    {NoManifest, Manifest(<<>>),
     Manifest(<<[categorySlug |-> "editorial", displayTitle |-> "Editorial",
                 path |-> "/gallery-covers/editorial.webp"]>>)}

NoPage == [page |-> "none", slug |-> ""]

\* the five import statements: the module of the page loads only if every
\* imported file exists
CategoryModuleLoads(generated) == \A s \in ImportedSlugs : generated[s].present

\* GALLERY_DATA[slug], undefined for a slug without an import
GALLERY_DATA(generated, slug) ==
    IF slug \in ImportedSlugs THEN generated[slug] ELSE NoManifest

\* CategoryPage once its module is loaded
CategoryPage(generated, slug) ==
    IF ~GalleryExists(slug)
    THEN [state |-> "not_found", message |-> "", images |-> <<>>]
    ELSE IF ~GALLERY_DATA(generated, slug).present
         THEN [state |-> "error",
               message |-> "No pre-generated data found for gallery: " \o slug,
               images |-> <<>>]
         ELSE [state |-> "gallery_view", message |-> "",
               images |-> GALLERY_DATA(generated, slug).images]

\* GalleryPage once its module is loaded
GalleryPage(coverThumbnails) ==
    IF Len(coverThumbnails) = 0
    THEN [state |-> "unavailable", message |-> "Gallery Unavailable", images |-> <<>>]
    ELSE [state |-> "cover_grid", message |-> "", images |-> coverThumbnails]

\* an import could not be resolved: no page is produced
ModuleNotFound == [state |-> "module_not_found", message |-> "", images |-> <<>>]

NoRender == [state |-> "none", message |-> "", images |-> <<>>]

PgParked ==
    /\ pgPc = "parked"
    /\ pgGenerated = [s \in ImportedSlugs |-> NoManifest]
    /\ pgCovers = NoManifest
    /\ pgPage = NoPage
    /\ pgRender = NoRender

\* src/generated as the generators can leave it
PgInit ==
    /\ pgPc = "idle"
    /\ pgGenerated \in [ImportedSlugs -> GeneratedGalleryFiles]
    /\ pgCovers \in GeneratedCoverFiles
    /\ pgPage = NoPage
    /\ pgRender = NoRender

\* the page for a slug is asked for: its module is loaded, imports first
CategoryPageLoad(slug) ==
    /\ pgPc = "idle"
    /\ pgPage' = [page |-> "category", slug |-> slug]
    /\ IF CategoryModuleLoads(pgGenerated)
       THEN pgPc' = "loaded" /\ pgRender' = NoRender
       ELSE pgPc' = "done" /\ pgRender' = ModuleNotFound
    /\ UNCHANGED <<pgGenerated, pgCovers>>
    /\ UNCHANGED pgOthers

CategoryPageRender ==
    /\ pgPc = "loaded"
    /\ pgPage.page = "category"
    /\ pgRender' = CategoryPage(pgGenerated, pgPage.slug)
    /\ pgPc' = "done"
    /\ UNCHANGED <<pgGenerated, pgCovers, pgPage>>
    /\ UNCHANGED pgOthers

\* the landing page is asked for
GalleryPageLoad ==
    /\ pgPc = "idle"
    /\ pgPage' = [page |-> "landing", slug |-> ""]
    /\ IF pgCovers.present
       THEN pgPc' = "loaded" /\ pgRender' = NoRender
       ELSE pgPc' = "done" /\ pgRender' = ModuleNotFound
    /\ UNCHANGED <<pgGenerated, pgCovers>>
    /\ UNCHANGED pgOthers

GalleryPageRender ==
    /\ pgPc = "loaded"
    /\ pgPage.page = "landing"
    /\ pgRender' = GalleryPage(pgCovers.images)
    /\ pgPc' = "done"
    /\ UNCHANGED <<pgGenerated, pgCovers, pgPage>>
    /\ UNCHANGED pgOthers

\* the next page is asked for
PageReturn ==
    /\ pgPc = "done"
    /\ pgPc' = "idle"
    /\ UNCHANGED <<pgGenerated, pgCovers, pgPage, pgRender>>
    /\ UNCHANGED pgOthers

PgNext == (\E slug \in PageSlugs : CategoryPageLoad(slug))
              \/ CategoryPageRender \/ GalleryPageLoad \/ GalleryPageRender
              \/ PageReturn
----------------------------------------------------------------------------
(* The image proxy under concurrent invocations: every await of GET lets    *)
(* another invocation of the same handler run                               *)

\* invocations in flight at the same time
Invocations == {1, 2}

ConcurrentEnvs ==
    { [clientEmail |-> "set", privateKey |-> "set"],
      [clientEmail |-> "set", privateKey |-> Null] }

ConcurrentRequests ==
    [id : {"", "fWide", "fSmall", "fText", "fGone"},
     size : {"thumbnail", "full"},
     format : {Null, "jpeg"},
     accept : { [present |-> FALSE, types |-> <<>>],
                [present |-> TRUE, types |-> <<"image/avif", "image/webp", "*/*">>] }]

\* outputFormat, the resize on the pipeline and the downloaded buffer: const
\* and let declarations inside GET
NoLocals == [format |-> Null, resize |-> NoResize, image |-> [kind |-> "none"]]

\* plausible bug: the locals are hoisted to module scope, one copy for all
Frame_Shared(i) == 1

\* the locals of GET belong to the invocation: each call has its own
Frame(i) == i

CxParked ==
    /\ cxVariant = "app"
    /\ cxEnv = [clientEmail |-> Null, privateKey |-> Null]
    /\ cxPc = [i \in Invocations |-> "parked"]
    /\ cxReq = [i \in Invocations |-> NoRequest]
    /\ cxLocals = [i \in Invocations |-> NoLocals]
    /\ cxResp = [i \in Invocations |-> NoResponse]
    /\ cxOverlap = [i \in Invocations |-> FALSE]

CxInit ==
    /\ cxVariant \in Variants
    /\ cxEnv \in ConcurrentEnvs
    /\ cxPc = [i \in Invocations |-> "idle"]
    /\ cxReq = [i \in Invocations |-> NoRequest]
    /\ cxLocals = [i \in Invocations |-> NoLocals]
    /\ cxResp = [i \in Invocations |-> NoResponse]
    /\ cxOverlap = [i \in Invocations |-> FALSE]

InFlight(i) == cxPc[i] \in {"fetching", "encoding"}

\* GET of invocation i, from its entry to its first await
Concurrent_Start(i, req) ==
    /\ cxPc[i] = "idle"
    /\ cxReq' = [cxReq EXCEPT ![i] = req]
    /\ LET client == getDriveClient(cxEnv)
       IN IF MissingId(req.id)
          THEN /\ cxResp' = [cxResp EXCEPT ![i] =
                                JsonResponse(400, [error |-> "Missing required parameter: id"])]
               /\ cxPc' = [cxPc EXCEPT ![i] = "done"]
               /\ UNCHANGED cxOverlap
          ELSE IF client.thrown
               THEN /\ cxResp' = [cxResp EXCEPT ![i] = CatchResponse(cxVariant, client)]
                    /\ cxPc' = [cxPc EXCEPT ![i] = "done"]
                    /\ UNCHANGED cxOverlap
               ELSE /\ cxPc' = [cxPc EXCEPT ![i] = "fetching"]
                    /\ cxOverlap' = [j \in Invocations |->
                                        IF \E k \in Invocations \ {i} : InFlight(k)
                                        THEN (j = i \/ InFlight(j) \/ cxOverlap[j])
                                        ELSE (j # i /\ cxOverlap[j])]
                    /\ UNCHANGED cxResp
    /\ UNCHANGED <<cxVariant, cxEnv, cxLocals>>
    /\ UNCHANGED cxOthers

\* the download of invocation i settles
Concurrent_FetchDone(i) ==
    /\ cxPc[i] = "fetching"
    /\ LET file == DriveFiles[cxReq[i].id]
       IN IF file.kind = "error"
          THEN /\ cxResp' = [cxResp EXCEPT ![i] =
                                CatchResponse(cxVariant, ErrorOf(file.message))]
               /\ cxPc' = [cxPc EXCEPT ![i] = "done"]
               /\ UNCHANGED cxLocals
          ELSE /\ cxLocals' = [cxLocals EXCEPT ![Frame(i)] =
                    [format |-> getOptimalFormat(cxReq[i].accept, RequestedFormatOf(cxReq[i])),
                     resize |-> ProxyResizeTarget(cxVariant, SizeOf(cxReq[i])),
                     image |-> file]]
               /\ cxPc' = [cxPc EXCEPT ![i] = "encoding"]
               /\ UNCHANGED cxResp
    /\ UNCHANGED <<cxVariant, cxEnv, cxReq, cxOverlap>>
    /\ UNCHANGED cxOthers

\* toBuffer() of invocation i settles
Concurrent_EncodeDone(i) ==
    /\ cxPc[i] = "encoding"
    /\ LET locals == cxLocals[Frame(i)]
       IN \/ /\ locals.image.kind = "bytes"
             /\ cxResp' = [cxResp EXCEPT ![i] = CatchResponse(cxVariant,
                              ErrorOf("Input buffer contains unsupported image format"))]
          \/ /\ locals.image.kind = "image"
             /\ cxResp' = [cxResp EXCEPT ![i] =
                              CatchResponse(cxVariant, ErrorOf("encoder failed"))]
          \/ /\ locals.image.kind = "image"
             /\ LET out == ResizeInside([w |-> locals.image.w, h |-> locals.image.h],
                                        locals.resize)
                IN cxResp' = [cxResp EXCEPT ![i] =
                       [status |-> 200, kind |-> "image",
                        headers |-> ImageHeaders(cxVariant, ContentTypeOf(locals.format)),
                        body |-> [format |-> locals.format, w |-> out.w, h |-> out.h,
                                  quality |-> Quality(cxVariant, SizeOf(cxReq[i]),
                                                      locals.format)]]]
    /\ cxPc' = [cxPc EXCEPT ![i] = "done"]
    /\ UNCHANGED <<cxVariant, cxEnv, cxReq, cxLocals, cxOverlap>>
    /\ UNCHANGED cxOthers

\* the response of invocation i has been sent; its frame is gone
Concurrent_Return(i) ==
    /\ cxPc[i] = "done"
    /\ cxPc' = [cxPc EXCEPT ![i] = "idle"]
    /\ cxReq' = [cxReq EXCEPT ![i] = NoRequest]
    /\ cxResp' = [cxResp EXCEPT ![i] = NoResponse]
    /\ cxOverlap' = [cxOverlap EXCEPT ![i] = FALSE]
    /\ cxLocals' = [cxLocals EXCEPT ![Frame(i)] = NoLocals]
    /\ UNCHANGED <<cxVariant, cxEnv>>
    /\ UNCHANGED cxOthers

CxNext == (\E i \in Invocations, req \in ConcurrentRequests : Concurrent_Start(i, req))
              \/ (\E i \in Invocations : Concurrent_FetchDone(i))
              \/ (\E i \in Invocations : Concurrent_EncodeDone(i))
              \/ (\E i \in Invocations : Concurrent_Return(i))
----------------------------------------------------------------------------
(* The contact form (ContactForm, onSubmit) and the contact endpoint        *)
(* (api/contact/route.ts, POST)                                             *)

\* the character of s at position i
CharAt(s, i) == SubSeq(s, i, i)

IsSpace(c) == c = " "

\* /^[^\s@]+@[^\s@]+\.[^\s@]+$/ : no whitespace, exactly one @ with something
\* before it, and after it a dot with something on both sides
EmailRegexTest(s) ==
    /\ \A i \in 1..Len(s) : ~IsSpace(CharAt(s, i))
    /\ \E at \in 2..Len(s) :
          /\ CharAt(s, at) = "@"
          /\ \A i \in 1..Len(s) : CharAt(s, i) = "@" => i = at
          /\ \E dot \in (at + 2)..(Len(s) - 1) : CharAt(s, dot) = "."

\* tokens the Turnstile widget hands to onSuccess
TurnstileTokens == {"tokA", "tokB"}

\* what react-hook-form passes to onSubmit: the fields have been validated
FormData == [name |-> "Ann", email |-> "ann@example.com", message |-> "Hello"]

\* a parsed request body; turnstileToken is Null when the body has none
ContactBody(name, email, message, token) ==
    [parsed |-> TRUE, name |-> name, email |-> email, message |-> message,
     turnstileToken |-> token]

UnparsedBody ==
    [parsed |-> FALSE, name |-> Null, email |-> Null, message |-> Null,
     turnstileToken |-> Null]

\* JSON.stringify({...data, turnstileToken})
FormBody(data, token) == ContactBody(data.name, data.email, data.message, token)

\* bodies posted to /api/contact by a client other than the form
DirectBodies ==
    { UnparsedBody,
      ContactBody("Bot", "bot@example.com", "Buy now", Null),
      ContactBody("Bot", "bot@example.com", "Buy now", "forged"),
      ContactBody(Null, "bot@example.com", "Buy now", Null),
      ContactBody("Bot", "bot@example", "Buy now", "tokA"),
      ContactBody("Bot", "bot@example.com", "", "tokA") }

NoContactResponse == [status |-> 0, success |-> FALSE, error |-> "", sent |-> FALSE]

\* POST of the contact endpoint; delivered is whether resend.emails.send
\* returns without an error
ContactPOST(body, delivered) ==
    IF ~body.parsed
    THEN [status |-> 500, success |-> FALSE, error |-> "Internal server error",
          sent |-> FALSE]
    ELSE IF ~Truthy(body.name) \/ ~Truthy(body.email) \/ ~Truthy(body.message)
    THEN [status |-> 400, success |-> FALSE, error |-> "Missing required fields",
          sent |-> FALSE]
    ELSE IF ~EmailRegexTest(body.email)
    THEN [status |-> 400, success |-> FALSE, error |-> "Invalid email address",
          sent |-> FALSE]
    ELSE IF ~delivered
    THEN [status |-> 500, success |-> FALSE, error |-> "Failed to send email",
          sent |-> FALSE]
    ELSE [status |-> 200, success |-> TRUE, error |-> "", sent |-> TRUE]

NoFlight == [posted |-> FALSE, body |-> UnparsedBody, answered |-> FALSE,
             response |-> NoContactResponse]

NoStatus == [type |-> Null, message |-> ""]

\* an email handed to Resend: where the request came from and the token it carried
Email(origin, body) ==
    [origin |-> origin, replyTo |-> body.email, turnstileToken |-> body.turnstileToken]

CtParked ==
    /\ ctPc = "parked"
    /\ ctToken = ""
    /\ ctSubmitting = FALSE
    /\ ctStatus = NoStatus
    /\ ctFlight = NoFlight
    /\ ctFormPosts = {}
    /\ ctOutbox = {}
    /\ ctFresh = FALSE
    /\ ctLast = NoContactResponse

\* the form has just been mounted
CtInit ==
    /\ ctPc = "mounted"
    /\ ctToken = ""
    /\ ctSubmitting = FALSE
    /\ ctStatus = NoStatus
    /\ ctFlight = NoFlight
    /\ ctFormPosts = {}
    /\ ctOutbox = {}
    /\ ctFresh = FALSE
    /\ ctLast = NoContactResponse

\* onSuccess={(token) => setTurnstileToken(token)}
TurnstileSuccess(token) ==
    /\ ctPc = "mounted"
    /\ ctToken' = token
    /\ ctFresh' = TRUE
    /\ UNCHANGED <<ctPc, ctSubmitting, ctStatus, ctFlight, ctFormPosts, ctOutbox, ctLast>>
    /\ UNCHANGED ctOthers

\* onError / onExpire: setTurnstileToken('')
TurnstileCleared ==
    /\ ctPc = "mounted"
    /\ ctToken # ""
    /\ ctToken' = ""
    /\ UNCHANGED <<ctPc, ctSubmitting, ctStatus, ctFlight, ctFormPosts, ctOutbox,
                   ctFresh, ctLast>>
    /\ UNCHANGED ctOthers

\* onSubmit up to its first await; the submit button is disabled while
\* isSubmitting
FormSubmit ==
    /\ ctPc = "mounted"
    /\ ~ctSubmitting
    /\ IF ctToken = ""
       THEN /\ ctStatus' = [type |-> "error",
                            message |-> "Please complete the security check."]
            /\ UNCHANGED <<ctSubmitting, ctFlight, ctFormPosts>>
       ELSE /\ ctSubmitting' = TRUE
            /\ ctStatus' = NoStatus
            /\ ctFlight' = [posted |-> TRUE, body |-> FormBody(FormData, ctToken),
                            answered |-> FALSE, response |-> NoContactResponse]
            /\ ctFormPosts' = ctFormPosts \cup {ctToken}
    /\ UNCHANGED <<ctPc, ctToken, ctOutbox, ctFresh, ctLast>>
    /\ UNCHANGED ctOthers

\* the endpoint handles the request of the form
ContactPostFromForm(delivered) ==
    /\ ctPc = "mounted"
    /\ ctFlight.posted /\ ~ctFlight.answered
    /\ LET response == ContactPOST(ctFlight.body, delivered)
       IN /\ ctFlight' = [ctFlight EXCEPT !.answered = TRUE, !.response = response]
          /\ ctOutbox' = IF response.sent
                         THEN ctOutbox \cup {Email("form", ctFlight.body)}
                         ELSE ctOutbox
          /\ ctLast' = response
    /\ UNCHANGED <<ctPc, ctToken, ctSubmitting, ctStatus, ctFormPosts, ctFresh>>
    /\ UNCHANGED ctOthers

\* the endpoint handles a request that did not come from the form
ContactPostDirect(body, delivered) ==
    /\ ctPc = "mounted"
    /\ LET response == ContactPOST(body, delivered)
       IN /\ ctOutbox' = IF response.sent
                         THEN ctOutbox \cup {Email("direct", body)}
                         ELSE ctOutbox
          /\ ctLast' = response
    /\ UNCHANGED <<ctPc, ctToken, ctSubmitting, ctStatus, ctFlight, ctFormPosts, ctFresh>>
    /\ UNCHANGED ctOthers

\* the awaits of onSubmit settle with the endpoint's answer
FormSettled ==
    /\ ctPc = "mounted"
    /\ ctFlight.posted /\ ctFlight.answered
    /\ IF ctFlight.response.success
       THEN /\ ctStatus' = [type |-> "success",
                            message |-> "Thank you for your message! We'll get back to you soon."]
            /\ ctToken' = ""
            /\ ctFresh' = FALSE
       ELSE /\ ctStatus' = [type |-> "error", message |-> ctFlight.response.error]
            /\ UNCHANGED <<ctToken, ctFresh>>
    /\ ctSubmitting' = FALSE
    /\ ctFlight' = NoFlight
    /\ UNCHANGED <<ctPc, ctFormPosts, ctOutbox, ctLast>>
    /\ UNCHANGED ctOthers

\* fetch rejects, or the answer is not JSON: the catch block
FormFetchFails ==
    /\ ctPc = "mounted"
    /\ ctFlight.posted
    /\ ctStatus' = [type |-> "error",
                    message |-> "Failed to send message. Please try again later."]
    /\ ctSubmitting' = FALSE
    /\ ctFlight' = NoFlight
    /\ UNCHANGED <<ctPc, ctToken, ctFormPosts, ctOutbox, ctFresh, ctLast>>
    /\ UNCHANGED ctOthers

CtNext == (\E token \in TurnstileTokens : TurnstileSuccess(token))
              \/ TurnstileCleared \/ FormSubmit
              \/ (\E delivered \in BOOLEAN : ContactPostFromForm(delivered))
              \/ (\E body \in DirectBodies, delivered \in BOOLEAN :
                     ContactPostDirect(body, delivered))
              \/ FormSettled \/ FormFetchFails
----------------------------------------------------------------------------
(* The infinite-scroll grid: MasonryGrid and useInfiniteScroll *)

\* pending setTimeout callbacks followed
MaxTimers == 3

NetworkQualities == {"low", "medium", "high"}

\* the props of the grid: images.length, initialLoadCount, loadMoreCount
ImageCounts == {0, 5, 12, 13, 20, 30, 45}

InitialLoadCounts == {3, 20}

LoadMoreCounts == {5, 12}

Min(a, b) == IF a <= b THEN a ELSE b

\* getInitialCount()
getInitialCount(quality, initialLoadCount) ==
    IF quality = "low" THEN 12
    ELSE IF quality = "medium" THEN 16
    ELSE initialLoadCount

\* the state a render has seen: what its loadMore closes over
Snapshot(displayCount, isLoadingMore) ==
    [displayCount |-> displayCount, isLoadingMore |-> isLoadingMore]

\* setDisplayCount((prev) => Math.min(prev + loadMoreCount, images.length))
NextDisplayCount(prev, loadMoreCount, length) == Min(prev + loadMoreCount, length)

NoStep == [kind |-> "none", pending |-> FALSE, shownAll |-> FALSE, scheduled |-> FALSE,
           before |-> 0, after |-> 0]

ScParked ==
    /\ scPc = "parked"
    /\ scProps = [length |-> 0, loadMoreCount |-> 0]
    /\ scDisplayCount = 0
    /\ scLoadingMore = FALSE
    /\ scRendered = Snapshot(0, FALSE)
    /\ scTimers = 0
    /\ scLast = NoStep

\* the grid has been mounted and rendered once
ScInit ==
    /\ scPc = "mounted"
    /\ scProps \in [length : ImageCounts, loadMoreCount : LoadMoreCounts]
    /\ \E quality \in NetworkQualities, initialLoadCount \in InitialLoadCounts :
          /\ scDisplayCount = getInitialCount(quality, initialLoadCount)
          /\ scRendered = Snapshot(getInitialCount(quality, initialLoadCount), FALSE)
    /\ scLoadingMore = FALSE
    /\ scTimers = 0
    /\ scLast = NoStep

\* the observer of the last effect is connected: enabled was true and the
\* sentinel was rendered (hasMore)
ObserverConnected == scRendered.displayCount < scProps.length

\* the sentinel intersects: the observer calls the loadMore of the render its
\* effect belongs to
SentinelTrigger ==
    /\ scPc = "mounted"
    /\ ObserverConnected
    /\ IF scRendered.displayCount >= scProps.length \/ scRendered.isLoadingMore
       THEN /\ scLast' = [NoStep EXCEPT !.kind = "trigger",
                                        !.pending = (scTimers > 0),
                                        !.shownAll = (scDisplayCount >= scProps.length),
                                        !.scheduled = FALSE]
            /\ UNCHANGED <<scLoadingMore, scTimers>>
       ELSE /\ scTimers < MaxTimers
            /\ scLoadingMore' = TRUE
            /\ scTimers' = scTimers + 1
            /\ scLast' = [NoStep EXCEPT !.kind = "trigger",
                                        !.pending = (scTimers > 0),
                                        !.shownAll = (scDisplayCount >= scProps.length),
                                        !.scheduled = TRUE]
    /\ UNCHANGED <<scPc, scProps, scDisplayCount, scRendered>>
    /\ UNCHANGED scOthers

\* a setTimeout callback runs
TimerExpires ==
    /\ scPc = "mounted"
    /\ scTimers > 0
    /\ scTimers' = scTimers - 1
    /\ scDisplayCount' = NextDisplayCount(scDisplayCount, scProps.loadMoreCount,
                                          scProps.length)
    /\ scLoadingMore' = FALSE
    /\ scLast' = [NoStep EXCEPT !.kind = "load", !.before = scDisplayCount,
                     !.after = NextDisplayCount(scDisplayCount, scProps.loadMoreCount,
                                                scProps.length)]
    /\ UNCHANGED <<scPc, scProps, scRendered>>
    /\ UNCHANGED scOthers

\* the state has changed: the grid renders again, loadMore is made anew and
\* the effect of useInfiniteScroll replaces the observer
Rerender ==
    /\ scPc = "mounted"
    /\ scRendered # Snapshot(scDisplayCount, scLoadingMore)
    /\ scRendered' = Snapshot(scDisplayCount, scLoadingMore)
    /\ scLast' = NoStep
    /\ UNCHANGED <<scPc, scProps, scDisplayCount, scLoadingMore, scTimers>>
    /\ UNCHANGED scOthers

ScNext == SentinelTrigger \/ TimerExpires \/ Rerender

LaterParked == RlParked /\ RvParked /\ PgParked /\ CxParked /\ CtParked /\ ScParked

----------------------------------------------------------------------------

Init == PxInit /\ RsParked /\ FmParked /\ LsParked /\ GgParked /\ CgParked /\ LaterParked

Next == GET_Start \/ GET_FetchDone \/ GET_EncodeDone \/ GET_Return

Spec == Init /\ [][Next]_vars

InitResize == PxParked /\ RsInit /\ FmParked /\ LsParked /\ GgParked /\ CgParked /\ LaterParked

SpecResize == InitResize /\ [][RsNext]_vars

InitFormat == PxParked /\ RsParked /\ FmInit /\ LsParked /\ GgParked /\ CgParked /\ LaterParked

SpecFormat == InitFormat /\ [][FmNext]_vars

InitListing ==
    PxParked /\ RsParked /\ FmParked /\ LsInit /\ GgParked /\ CgParked /\ LaterParked

SpecListing == InitListing /\ [][LsNext]_vars

\* one of the two generators is run, again and again
InitGenerators ==
    /\ PxParked /\ RsParked /\ FmParked /\ LsParked /\ LaterParked
    /\ \/ GgInit /\ CgParked
       \/ GgParked /\ CgInit

GeneratorsNext ==
    \/ GalleryRunStart \/ GallerySkip \/ GalleryFetchFails \/ GalleryWritten
    \/ GalleryWriteFails \/ GalleryRunEnd \/ GalleryNextRun
    \/ CoverRunStart \/ CoverSkip \/ CoverDownloadFails \/ CoverDecodeFails
    \/ CoverWriteFails \/ CoverDone \/ CoverSaveManifest \/ CoverSaveFails
    \/ CoverNextRun

SpecGenerators == InitGenerators /\ [][GeneratorsNext]_vars

FirstParked == PxParked /\ RsParked /\ FmParked /\ LsParked /\ GgParked /\ CgParked

InitRateLimit ==
    FirstParked /\ RlInit /\ RvParked /\ PgParked /\ CxParked /\ CtParked /\ ScParked

SpecRateLimit == InitRateLimit /\ [][RlNext]_vars

InitRevalidate ==
    FirstParked /\ RlParked /\ RvInit /\ PgParked /\ CxParked /\ CtParked /\ ScParked

SpecRevalidate == InitRevalidate /\ [][RvNext]_vars

InitPages ==
    FirstParked /\ RlParked /\ RvParked /\ PgInit /\ CxParked /\ CtParked /\ ScParked

SpecPages == InitPages /\ [][PgNext]_vars

InitConcurrent ==
    FirstParked /\ RlParked /\ RvParked /\ PgParked /\ CxInit /\ CtParked /\ ScParked

SpecConcurrent == InitConcurrent /\ [][CxNext]_vars

InitContact ==
    FirstParked /\ RlParked /\ RvParked /\ PgParked /\ CxParked /\ CtInit /\ ScParked

SpecContact == InitContact /\ [][CtNext]_vars

InitScroll ==
    FirstParked /\ RlParked /\ RvParked /\ PgParked /\ CxParked /\ CtParked /\ ScInit

SpecScroll == InitScroll /\ [][ScNext]_vars

\* timers expire and renders are carried out; the sentinel keeps triggering
\* for as long as its observer is connected
SpecScrollFair ==
    /\ SpecScroll
    /\ WF_vars(TimerExpires)
    /\ WF_vars(Rerender)
    /\ WF_vars(SentinelTrigger)

----------------------------------------------------------------------------
(* Claims about the image proxy, checked under Spec *)

HasResponse == pxPc = "done"

\* the format the claim names for a request
NegotiatedByClaim(req) ==
    LET rf == RequestedFormatOf(req)
    IN IF rf # "auto" THEN rf
       ELSE IF Includes(req.accept, "image/avif") THEN "avif"
       ELSE IF Includes(req.accept, "image/webp") THEN "webp"
       ELSE "jpeg"

\* C1: for every Accept header (none included) and every requestedFormat in
\* {auto, webp, avif, jpeg}, the output format is requestedFormat when it is
\* not auto, otherwise avif if the header contains image/avif, else webp if
\* it contains image/webp, else jpeg.
C1_FormatNegotiation ==
    (pxFormat # Null /\ RequestedFormatOf(pxReq) \in {"auto", "webp", "avif", "jpeg"})
        => /\ pxFormat = NegotiatedByClaim(pxReq)
           /\ (pxResp.status = 200 => pxResp.body.format = NegotiatedByClaim(pxReq))

C1_Witness ==
    /\ HasResponse /\ pxResp.status = 200
    /\ RequestedFormatOf(pxReq) = "auto"
    /\ pxReq.accept.types = <<"image/webp", "image/avif">>
    /\ pxResp.body.format = "avif"

\* C2: a request with no id (absent or empty) ends in a 400 response whose
\* message names the parameter id, whatever the credentials, size, format and
\* Accept header are, with no credential lookup and no upstream fetch made.
C2_MissingIdIs400 ==
    (pxPc # "idle" /\ (pxReq.id = Null \/ pxReq.id = ""))
        => /\ pxPc = "done"
           /\ pxResp.status = 400
           /\ pxResp.body = [error |-> "Missing required parameter: id"]
           /\ pxCredLookups = 0
           /\ pxFetches = <<>>

C2_Witness ==
    /\ HasResponse /\ pxReq.id = "" /\ pxResp.status = 400
    /\ pxEnv = [clientEmail |-> "set", privateKey |-> "set"]
    /\ pxReq.size = "thumbnail" /\ pxReq.format = "webp"

\* C3: with an id, every failure after the id check (missing credentials,
\* fetch error, decode error, encode error) ends in a 500 response with a
\* JSON body holding error and details, details being the message of the
\* underlying error; no failing path ends in a 200 or in an image body.
C3_FailuresAre500 ==
    /\ (HasResponse /\ pxFailure.thrown)
        => /\ pxResp.status = 500
           /\ pxResp.kind = "json"
           /\ {"error", "details"} \subseteq DOMAIN pxResp.body
           /\ pxResp.body.details = pxFailure.message
    /\ (pxResp.status = 200 \/ pxResp.kind = "image") => ~pxFailure.thrown
    /\ (HasResponse /\ Truthy(pxReq.id) /\ pxResp.status # 200) => pxFailure.thrown

C3_Witness ==
    /\ HasResponse /\ pxReq.id = "fText"
    /\ pxFailure.message = "Input buffer contains unsupported image format"
    /\ pxResp.status = 500
    /\ pxResp.body.details = "Input buffer contains unsupported image format"

\* C4: every 200 response carries Content-Type image/<negotiated format>,
\* Cache-Control 'public, max-age=31536000, immutable' and Vary 'Accept';
\* no error response carries these image cache headers.
C4_CacheHeaders ==
    /\ pxResp.status = 200
        => /\ {"Content-Type", "Cache-Control", "Vary"} \subseteq DOMAIN pxResp.headers
           /\ pxResp.headers["Content-Type"] = "image/" \o pxFormat
           /\ pxFormat = getOptimalFormat(pxReq.accept, RequestedFormatOf(pxReq))
           /\ pxResp.headers["Cache-Control"] = "public, max-age=31536000, immutable"
           /\ pxResp.headers["Vary"] = "Accept"
    /\ (HasResponse /\ pxResp.status # 200)
        => /\ "Cache-Control" \notin DOMAIN pxResp.headers
           /\ "Vary" \notin DOMAIN pxResp.headers
           /\ pxResp.headers["Content-Type"] = "application/json"

C4_Witness ==
    /\ HasResponse /\ pxResp.status = 200
    /\ pxReq.format = Null /\ ~pxReq.accept.present
    /\ pxResp.headers["Content-Type"] = "image/jpeg"

CredentialsConfigured == Truthy(pxEnv.clientEmail) /\ Truthy(pxEnv.privateKey)

\* C5 as stated: each invocation that has an id issues exactly one upstream
\* download of that file id, and an invocation without an id issues none.
C5_ExactlyOneDownload ==
    HasResponse => pxFetches = (IF Truthy(pxReq.id) THEN <<pxReq.id>> ELSE <<>>)

\* C5 as amended: an invocation issues exactly one upstream download of its
\* file id when it has an id and both credentials are set, and none
\* otherwise; it never issues a second one.
C5_OneDownloadWhenConfigured ==
    /\ Len(pxFetches) <= 1
    /\ HasResponse
        => pxFetches = (IF Truthy(pxReq.id) /\ CredentialsConfigured
                        THEN <<pxReq.id>> ELSE <<>>)

C5_Witness ==
    /\ HasResponse /\ pxReq.id = "fWide" /\ CredentialsConfigured
    /\ pxFetches = <<"fWide">> /\ pxResp.status = 200

\* a < b on width bounds, a size without resize being unbounded
BoundLess(a, b) == a.applied /\ (~b.applied \/ a.width < b.width)

\* C6: the size-to-target-width table is strictly increasing: the width
\* bound applied for thumbnail is less than the one for medium, which is less
\* than the one for full (in the copy that does not resize full, full is
\* unbounded); and the bound of the requested size is the one applied.
C6_WidthTableIncreasing ==
    /\ BoundLess(ProxyResizeTarget(pxVariant, "thumbnail"),
                 ProxyResizeTarget(pxVariant, "medium"))
    /\ BoundLess(ProxyResizeTarget(pxVariant, "medium"),
                 ProxyResizeTarget(pxVariant, "full"))
    /\ (pxResp.status = 200 /\ SizeOf(pxReq) \in {"thumbnail", "medium", "full"})
        => /\ pxResize = ProxyResizeTarget(pxVariant, SizeOf(pxReq))
           /\ (pxResize.applied => pxResp.body.w <= pxResize.width)
           /\ (SizeOf(pxReq) = "medium"
                 => pxResp.body.w >= ResizeInside([w |-> pxImage.w, h |-> pxImage.h],
                                        ProxyResizeTarget(pxVariant, "thumbnail")).w)

C6_Witness ==
    /\ HasResponse /\ pxResp.status = 200 /\ pxVariant = "root"
    /\ pxReq.size = "medium" /\ pxReq.id = "fWide" /\ pxResp.body.w = 1600

----------------------------------------------------------------------------
(* Claims about the resize call sites, checked under SpecResize *)

Resized == rsPc = "done" /\ rsTarget.applied

\* C7 as stated: for every resize and every native width and height, the
\* longer dimension of the output is at most the target value of the resize.
C7_LongerSideWithinTarget ==
    Resized => Max(rsOut.w, rsOut.h) <= Max(rsTarget.width, rsTarget.height)

\* C7 as amended: the output width is at most the target width (and the
\* output height at most the target height where the resize names one); the
\* longer dimension is at most the target only where the resize names both
\* a width and a height or the input is at least as wide as it is tall.
C7_WidthWithinTarget ==
    Resized
        => /\ rsOut.w <= rsTarget.width
           /\ (rsTarget.height > 0 => rsOut.h <= rsTarget.height)
           /\ (rsTarget.height > 0 \/ rsNative.w >= rsNative.h)
                => Max(rsOut.w, rsOut.h) <= Max(rsTarget.width, rsTarget.height)

C7_Witness ==
    /\ Resized /\ rsSite = "cover-thumbnail"
    /\ rsNative = [w |-> 3000, h |-> 4000]
    /\ rsOut = [w |-> 800, h |-> 1067]

\* C8 as stated: at every resize call site, an input whose native width is
\* at most the target width comes out with its native dimensions.
C8_NarrowInputUnchanged ==
    (rsPc = "done" /\ (~rsTarget.applied \/ rsNative.w <= rsTarget.width))
        => rsOut = rsNative

\* C8 as amended: no call site enlarges an image in either dimension, and an
\* input whose native width is at most the target width (and, where the
\* resize names a target height, whose native height is at most that height)
\* comes out with its native dimensions.
C8_NeverEnlarges ==
    rsPc = "done"
        => /\ rsOut.w <= rsNative.w
           /\ rsOut.h <= rsNative.h
           /\ (~rsTarget.applied
                 \/ (/\ rsNative.w <= rsTarget.width
                     /\ (rsTarget.height = 0 \/ rsNative.h <= rsTarget.height)))
                => rsOut = rsNative

C8_Witness ==
    /\ rsPc = "done" /\ rsSite = "about-image"
    /\ rsNative = [w |-> 1200, h |-> 3000]
    /\ rsOut = rsNative

----------------------------------------------------------------------------
(* Claims about the formatters, checked under SpecFormat *)

Formatted == fmPc = "done"

\* the exposure string the claim names, t in thousandths of a second
ExposureByClaim(th) ==
    IF th >= 1000 THEN JsNumber(th) \o "s"
    ELSE "1/" \o ToString(RoundDiv(1000, th)) \o "s"

\* C9: for every numeric exposure time t > 0 in a file's metadata, the
\* exposure part of the settings string is "{t}s" when t >= 1 and
\* "1/{round(1/t)}s" when t < 1, in the generator and in the library.
C9_ExposureFormat ==
    (/\ Formatted
     /\ fmFile.imageMediaMetadata.present
     /\ fmFile.imageMediaMetadata.exposureTime.kind = "num"
     /\ fmFile.imageMediaMetadata.exposureTime.th > 0)
        => fmOut.exposure = ExposureByClaim(fmFile.imageMediaMetadata.exposureTime.th)

\* the file size string the claim names
FileSizeByClaim(n) ==
    IF n < 1024 THEN ToString(n) \o " B"
    ELSE IF n < 1048576 THEN ToFixed1(n, 1024) \o " KB"
    ELSE ToFixed1(n, 1048576) \o " MB"

\* C10: for every byte count n >= 0 the formatted file size is "{n} B" when
\* n < 1024, n/1024 with one decimal and " KB" when n < 1 MiB, and
\* n/1024/1024 with one decimal and " MB" otherwise, in the generator and in
\* the library.
C10_FileSizeFormat ==
    (Formatted /\ fmFile.size.present)
        => fmOut.fileSize = FileSizeByClaim(fmFile.size.bytes)

----------------------------------------------------------------------------
(* Claims about the generators, checked under SpecGenerators *)

GalleryRunDone == ggPc = "done"

CredentialsSet(env) == Truthy(env.clientEmail) /\ Truthy(env.privateKey)

\* the folder id configured for the i-th gallery
FolderIdOf(env, i) == env.folders[GALLERIES[i].folderIdEnvVar]

\* the folder ids of the galleries that have one, in the order of GALLERIES
ConfiguredFolderIds(env) ==
    SelectSeq([i \in 1..Len(GALLERIES) |-> FolderIdOf(env, i)], LAMBDA f : Truthy(f))

\* C11: in a gallery generator run, a category whose folder id is not set
\* (unset or empty) is skipped: no listing call is made for it and no file
\* is written for it; every category that has a folder id is still listed
\* (one listing call each, in order, when the credentials are there), and
\* main() resolves.
C11_UnsetCategorySkipped ==
    /\ ggExit # "rejected"
    /\ GalleryRunDone =>
         /\ ggExit = "resolved"
         /\ \A i \in 1..Len(GALLERIES) :
              ~Truthy(FolderIdOf(ggEnv, i)) =>
                  /\ ~ggWritten[GALLERIES[i].slug].present
                  /\ \A k \in 1..Len(ggListCalls) : Truthy(ggListCalls[k])
         /\ CredentialsSet(ggEnv) => ggListCalls = ConfiguredFolderIds(ggEnv)

C11_Witness ==
    /\ GalleryRunDone
    /\ ~Truthy(FolderIdOf(ggEnv, 1))
    /\ FolderIdOf(ggEnv, 2) = "folderA"
    /\ ~ggWritten["editorial"].present
    /\ ggWritten["graduation"].present
    /\ ggListCalls = <<"folderA">>

\* the files a folder lists for the i-th gallery in this run
ListedFor(i) == DriveFolder(ggDrive, FolderIdOf(ggEnv, i)).files

Decodable(files) == SelectSeq(files, LAMBDA f : f.decodable)

\* the mappings whose processing ended as "done"
CoverSlugsDone ==
    { cgMappings[i].categorySlug : i \in { k \in 1..Len(cgLog) : cgLog[k] = "done" } }

RecordSlugs(records) == { records[i].categorySlug : i \in 1..Len(records) }

CoverRecordOf(i) ==
    LET file == DriveFiles[cgMappings[i].fileId]
    IN CoverRecord(cgMappings[i], [w |-> file.w, h |-> file.h])

\* the records of the mappings whose processing ended as "done", in order
RECURSIVE CoverRecordsDone(_)
CoverRecordsDone(n) ==
    IF n = 0 THEN <<>>
    ELSE CoverRecordsDone(n - 1)
             \o (IF cgLog[n] = "done" THEN <<CoverRecordOf(n)>> ELSE <<>>)

\* how the processing of a mapping can end, given its file
CoverOutcomes(mapping) ==
    IF ~Truthy(mapping.fileId) THEN {"skipped"}
    ELSE IF ~downloadImage(cgEnv, mapping.fileId).ok THEN {"download failed"}
    ELSE IF DriveFiles[mapping.fileId].kind # "image" THEN {"decode failed"}
    ELSE {"write failed", "done"}

C13_ManifestOrdered ==
    cgManifest.present =>
        \A i, j \in 1..Len(cgManifest.records) :
            i < j => cgManifest.records[i].displayOrder < cgManifest.records[j].displayOrder

C15_OnlyLastRun ==
    /\ GalleryRunDone =>
         \A slug \in GallerySlugs : ggDisk[slug].present => ggWritten[slug].present
    /\ cgPc = "done" =>
         /\ \A slug \in CoverSlugs : cgCovers[slug].present => cgCovers[slug].run = cgRun
         /\ cgManifest.present =>
              /\ cgManifest.run = cgRun
              /\ RecordSlugs(cgManifest.records)
                   = { slug \in CoverSlugs : cgCovers[slug].present }

----------------------------------------------------------------------------
(* Claims about fetchImagesFromDrive, checked under SpecListing *)

ListingDone == lsPc = "done"

\* C16: in the records built from one listing, by the generator or by the
\* library, no two have the same id, for every listing in which the provider
\* gives distinct ids to the files that have one, files without an id
\* (fallback image-<index>) included.
C16_UniqueIds ==
    lsResult.returned =>
        \A i, j \in 1..Len(lsResult.images) :
            i # j => lsResult.images[i].id # lsResult.images[j].id

C16_Witness ==
    /\ lsResult.returned
    /\ Len(lsResult.images) = 2
    /\ lsRemote.files[1].id = Null /\ lsRemote.files[2].id = Null
    /\ lsResult.images[1].id = "image-0"
    /\ lsResult.images[2].id = "image-1"

\* both dimensions are there and not 0
HasDimensions(meta) ==
    /\ meta.present
    /\ meta.width.present /\ meta.width.n # 0
    /\ meta.height.present /\ meta.height.n # 0

\* C17: for every listed file the record's width and height are those of
\* the file's metadata when the metadata has them, and 1920 and 1080 when
\* it does not, a metadata that has only one of the two, or a 0, counting as
\* absent.
C17_DimensionsFromMetadata ==
    lsResult.returned =>
        \A i \in 1..Len(lsResult.images) :
            LET meta == lsRemote.files[i].imageMediaMetadata
                image == lsResult.images[i]
            IN IF HasDimensions(meta)
               THEN image.width = meta.width.n /\ image.height = meta.height.n
               ELSE image.width = 1920 /\ image.height = 1080

\* C18: every record the gallery generator builds holds its blur
\* placeholder as a data URI beginning with "data:image/webp;base64,", and
\* its thumbnail URL differs from its src URL.
C18_InlinePlaceholder ==
    (lsResult.returned /\ lsImpl = "generator") =>
        \A i \in 1..Len(lsResult.images) :
            /\ StartsWith(lsResult.images[i].blurDataURL, "data:image/webp;base64,")
            /\ lsResult.images[i].thumbnail # lsResult.images[i].src

\* what the message of the error thrown to the caller says
SaysNotConfigured(message) == StrIncludes(message, "credentials not found")
SaysRejected(message) == StrIncludes(message, "Invalid Google Drive credentials")

\* C19: when either credential is unset or empty, a listing fails before
\* drive.files.list is called, and the error the caller gets says that the
\* credentials are not configured, not that they were rejected.
C19_MissingCredentialsFailFast ==
    (ListingDone /\ ~CredentialsSet(lsEnv)) =>
        /\ lsResult.error.thrown
        /\ lsListCalls = 0
        /\ SaysNotConfigured(lsResult.error.message)
        /\ ~SaysRejected(lsResult.error.message)

\* the kind a message of the library's catch block reports
ReportedKind(message) ==
    IF StartsWith(message, "Invalid Google Drive credentials") THEN "authentication"
    ELSE IF StartsWith(message, "Folder not found") THEN "not found"
    ELSE IF StartsWith(message, "Access denied") THEN "access denied"
    ELSE "none"

\* the kind of a failed list call
FailureKind(status) ==
    IF status = 401 THEN "authentication"
    ELSE IF status = 404 THEN "not found"
    ELSE IF status = 403 THEN "access denied"
    ELSE "other"

\* C20: a failure of the library's list call that is an authentication
\* failure, a 404 or a 403 is reported to the caller as that kind (never as
\* another of the three, never as none of them), whatever its message and
\* the folder id contain.
C20_FailureKindReported ==
    (/\ ListingDone /\ lsImpl = "library" /\ lsListCalls > 0 /\ ~lsRemote.ok
     /\ FailureKind(lsRemote.status) # "other")
        => ReportedKind(lsResult.error.message) = FailureKind(lsRemote.status)

----------------------------------------------------------------------------
(* Further claims about the image proxy, checked under Spec *)

FullSizeWidth == 2048

\* C30: for every value of the size parameter (absent, empty, thumbnail,
\* medium, full, or any other), an image the proxy of part_019 serves is at
\* most 2048 pixels wide.
C30_NeverWiderThanFull ==
    (HasResponse /\ pxVariant = "root" /\ pxResp.status = 200)
        => pxResp.body.w <= FullSizeWidth

----------------------------------------------------------------------------
(* Further claims about the cover generator, checked under SpecGenerators *)

----------------------------------------------------------------------------
(* Claims about the rate limiter, checked under SpecRateLimit *)

\* the accepted calls of an identifier from the call that started its
\* current window up to the end of that window
GrantsInWindow(identifier) ==
    { k \in 1..Len(rlGrants[identifier]) :
        /\ rlOpened[identifier].at <= rlGrants[identifier][k]
        /\ rlGrants[identifier][k] <= rlOpened[identifier].at + rlConfig.window }

\* C23: for every identifier, limit and window, and every sequence of
\* rateLimit calls at non-decreasing times, the calls of the identifier
\* that return success = true within one window (from the call that started
\* it up to its reset time) are at most limit.
C23_AtMostLimitPerWindow ==
    \A identifier \in Identifiers :
        rlOpened[identifier].present
            => Cardinality(GrantsInWindow(identifier)) <= rlConfig.limit

\* C27: a rejected rateLimit call leaves the entry of its identifier as it
\* was and reports remaining = 0 and reset = the stored reset time; an
\* accepted call reports remaining = limit - the stored count, never
\* negative.
C27_RejectedCallChangesNothing ==
    rlLast.called =>
        IF rlLast.result.success
        THEN /\ rlLast.result.remaining = rlConfig.limit - rlLast.after.count
             /\ rlLast.result.remaining >= 0
        ELSE /\ rlLast.after = rlLast.before
             /\ rlLast.result.remaining = 0
             /\ rlLast.result.reset = rlLast.before.resetTime

\* C28: the cleanup removes only entries whose window has expired, and for
\* every interleaving of cleanups with rateLimit calls each call returns
\* the result, and leaves the entry, it would without any cleanup.
C28_CleanupInvisible ==
    /\ \A identifier \in Identifiers :
         \/ rlMap[identifier] = rlReference[identifier]
         \/ /\ ~rlMap[identifier].present
            /\ rlReference[identifier].present
            /\ rlNow > rlReference[identifier].resetTime
    /\ rlLast.called =>
         /\ rlLast.result = rlLast.reference
         /\ rlLast.after = rlLast.refAfter

C28_Witness ==
    /\ rlLast.called
    /\ ~rlLast.before.present
    /\ rlLast.refBefore.present
    /\ rlLast.result.success
    /\ rlLast.result = rlLast.reference
    /\ rlLast.after = rlLast.refAfter
    /\ rlMap["b"].present

----------------------------------------------------------------------------
(* Claims about the revalidation endpoint, checked under SpecRevalidate *)

SecretConfigured == rvEnv # Null /\ rvEnv # ""

RevalidatePostDone == rvPc = "done" /\ rvReq.method = "POST"

\* C24: a POST revalidates a path only when the x-revalidate-secret header
\* equals the configured REVALIDATE_SECRET. With no secret configured the
\* answer is 500, with a missing or different header it is 401, and in both
\* cases no path is revalidated and the body is not read; GET revalidates
\* nothing.
C24_RevalidateOnlyWithSecret ==
    /\ (rvRevalidated # <<>> \/ rvBodyReads > 0 \/ rvPc = "reading")
          => (rvReq.method = "POST" /\ SecretConfigured /\ rvReq.secret = rvEnv)
    /\ (RevalidatePostDone /\ ~SecretConfigured)
          => (rvResp.status = 500 /\ rvRevalidated = <<>> /\ rvBodyReads = 0)
    /\ (RevalidatePostDone /\ SecretConfigured /\ rvReq.secret # rvEnv)
          => (rvResp.status = 401 /\ rvRevalidated = <<>> /\ rvBodyReads = 0)
    /\ (rvPc = "done" /\ rvReq.method = "GET") => rvRevalidated = <<>>

\* a POST without the header, whose body names paths, has been answered 401
C24_Witness ==
    /\ RevalidatePostDone
    /\ SecretConfigured
    /\ rvReq.secret = Null
    /\ rvReq.body.parsed /\ IsArray(rvReq.body.paths) /\ rvReq.body.paths.items # <<>>
    /\ rvResp.status = 401
    /\ rvRevalidated = <<>>

----------------------------------------------------------------------------
(* Claims about the generated pages, checked under SpecPages *)

CategoryRendered(slug) ==
    pgPc = "done" /\ pgPage.page = "category" /\ pgPage.slug = slug

\* C21 as stated: for every slug of the category configuration, rendering the
\* category page ends in the gallery view or in an explicit error state,
\* whether the manifest of the slug is missing, empty or filled; and the
\* landing page renders 'Gallery Unavailable' when the cover manifest is
\* empty.
C21_RenderEndsInViewOrError ==
    /\ \A slug \in ConfiguredSlugs :
          CategoryRendered(slug) => pgRender.state \in {"gallery_view", "error"}
    /\ (pgPc = "done" /\ pgPage.page = "landing"
          /\ pgCovers.present /\ pgCovers.images = <<>>)
          => pgRender.message = "Gallery Unavailable"

----------------------------------------------------------------------------
(* Claims about concurrent invocations of the proxy, checked under         *)
(* SpecConcurrent                                                           *)

\* what an invocation running alone can answer to a request
SoloResponses(variant, env, req) ==
    IF ~Truthy(req.id)
    THEN {JsonResponse(400, [error |-> "Missing required parameter: id"])}
    ELSE IF getDriveClient(env).thrown
    THEN {CatchResponse(variant, getDriveClient(env))}
    ELSE IF DriveFiles[req.id].kind = "error"
    THEN {CatchResponse(variant, ErrorOf(DriveFiles[req.id].message))}
    ELSE IF DriveFiles[req.id].kind = "bytes"
    THEN {CatchResponse(variant, ErrorOf("Input buffer contains unsupported image format"))}
    ELSE LET format == getOptimalFormat(req.accept, RequestedFormatOf(req))
             out == ResizeInside([w |-> DriveFiles[req.id].w, h |-> DriveFiles[req.id].h],
                                 ProxyResizeTarget(variant, SizeOf(req)))
         IN {CatchResponse(variant, ErrorOf("encoder failed")),
             [status |-> 200, kind |-> "image",
              headers |-> ImageHeaders(variant, ContentTypeOf(format)),
              body |-> [format |-> format, w |-> out.w, h |-> out.h,
                        quality |-> Quality(variant, SizeOf(req), format)]]}

\* C22: for any interleaving of concurrent invocations of the proxy, the
\* response to each is one that the invocation would give running alone: it
\* depends on its own id, size, format, Accept header and the upstream bytes
\* of its id, whatever another invocation, for the same id or another, does
\* at the same time. (The X-Processing-Time header is a measured duration,
\* kept as a placeholder: it varies from one lone invocation to the next.)
C22_NoInterference ==
    \A i \in Invocations :
        cxPc[i] = "done" => cxResp[i] \in SoloResponses(cxVariant, cxEnv, cxReq[i])

\* two invocations that were in flight together, for different ids, sizes and
\* formats, have both answered 200
C22_Witness ==
    /\ \A i \in Invocations :
          cxPc[i] = "done" /\ cxOverlap[i] /\ cxResp[i].status = 200
    /\ cxReq[1].id # cxReq[2].id
    /\ cxReq[1].size # cxReq[2].size
    /\ cxResp[1].body.format # cxResp[2].body.format

----------------------------------------------------------------------------
(* Claims about the contact form and its endpoint, checked under           *)
(* SpecContact                                                              *)

\* C25 as stated: a contact message is delivered by email only after the
\* sender has completed the Turnstile check: the form never posts while its
\* token is empty, the token is cleared after a successful submission, and
\* the endpoint sends no email for a request that carries no valid token.
C25_EmailOnlyAfterCheck ==
    /\ "" \notin ctFormPosts
    /\ (ctStatus.type = "success" /\ ~ctFresh) => ctToken = ""
    /\ \A email \in ctOutbox : email.turnstileToken \in TurnstileTokens

----------------------------------------------------------------------------
(* Claims about the infinite-scroll grid, checked under SpecScroll and      *)
(* SpecScrollFair                                                           *)

\* C29 as stated, its safety part: for any interleaving of sentinel triggers,
\* timer expiries and re-renders, the display count never decreases, a
\* trigger that arrives while a load is pending or when all images are shown
\* schedules nothing, and each completed load raises the count by at most
\* loadMoreCount and never above the number of images.
C29_ScrollLoadsOneAtATime ==
    /\ scLast.kind = "trigger" /\ (scLast.pending \/ scLast.shownAll)
          => ~scLast.scheduled
    /\ scLast.kind = "load"
          => /\ scLast.after >= scLast.before
             /\ scLast.after - scLast.before <= scProps.loadMoreCount
             /\ scLast.after <= Max(scLast.before, scProps.length)

\* C29, its progress part: if the sentinel keeps triggering, the grid comes
\* to show all images with isLoadingMore false, and stays so
C29_EventuallyAllShown ==
    <>[](scDisplayCount >= scProps.length /\ ~scLoadingMore /\ scTimers = 0)

====
